---- MODULE Spec2Model ----
(***************************************************************************)
(* Model of the chunked, resumable synthesis pipeline of                   *)
(* ai_audiobook_fast: the sequential runner with checkpoint/resume         *)
(* (audiobook_backend/pipeline.py run_sequential_pipeline, driven by       *)
(* audiobook_backend/cli.py main) and the three-stage overlapped runner    *)
(* (run_overlap3_pipeline).                                                *)
(***************************************************************************)
EXTENDS Integers, Sequences, FiniteSets, TLC

(***************************************************************************)
(* Bounds of the model.                                                    *)
(***************************************************************************)
MaxChunks == 2
MaxRuns == 2
MaxDeletes == 1
OvMaxChunks == 2
MaxPrefetch == 2
MaxPcmQueueSize == 3
MaxTimeouts == 1

(***************************************************************************)
(* Small input alphabets.                                                  *)
(***************************************************************************)
\* chunk texts: 0 is blank, 1 is one segment, 2 is two segments
Texts == {0, 1, 2}
\* checkpoint configs (build_checkpoint_config): the voice and the output
\* format are two of its fields
Fingerprints == {1, 2}
FormatOf(f) == IF f = 1 THEN "mp3" ELSE "m4b"

(***************************************************************************)
(* Generic helpers.                                                        *)
(***************************************************************************)
Max(a, b) == IF a >= b THEN a ELSE b

RECURSIVE Flatten(_)
Flatten(ss) == IF ss = <<>> THEN <<>> ELSE Head(ss) \o Flatten(Tail(ss))

RECURSIVE SumLen(_)
SumLen(ss) == IF ss = <<>> THEN 0 ELSE Len(Head(ss)) + SumLen(Tail(ss))

SortedSeq(S) ==
  CHOOSE s \in [1 .. Cardinality(S) -> S] :
    /\ \A i \in 1 .. Cardinality(S) : \A j \in 1 .. Cardinality(S) :
         i < j => s[i] < s[j]

SeqToSet(s) == {s[i] : i \in 1 .. Len(s)}

(***************************************************************************)
(* Audio buffers.  A float sample x is represented by the integer          *)
(* 1000 * x; an int16 sample by itself.                                    *)
(***************************************************************************)
F32(d) == [dtype |-> "float32", data |-> d]
I16(d) == [dtype |-> "int16", data |-> d]

Clip(x) == IF x < -1000 THEN -1000 ELSE IF x > 1000 THEN 1000 ELSE x

\* astype(np.int16) of a float truncates toward zero
TruncDiv(a, b) == IF a >= 0 THEN a \div b ELSE -((-a) \div b)

ScaleSample(x) == TruncDiv(Clip(x) * 32767, 1000)

audio_to_int16(audio) ==
  IF audio.dtype # "int16"
    THEN I16([i \in 1 .. Len(audio.data) |-> ScaleSample(audio.data[i])])
    ELSE audio

\* ndarray.tobytes() of an int16 array: two's complement, little endian
SampleBytes(s) ==
  LET u == (s + 65536) % 65536 IN <<u % 256, u \div 256>>

RECURSIVE tobytes(_)
tobytes(d) == IF d = <<>> THEN <<>> ELSE SampleBytes(Head(d)) \o tobytes(Tail(d))

\* np.concatenate(parts), or the empty int16 array when there are no parts
Concatenate(parts) ==
  I16(Flatten([i \in 1 .. Len(parts) |-> parts[i].data]))

(***************************************************************************)
(* The TTS backend: generate(text, voice, ...) yields a sequence of raw    *)
(* buffers.  The rendition r stands for everything besides the text that   *)
(* shapes the waveform (the voice of the fingerprint and, for a backend    *)
(* that is not deterministic, the call).                                   *)
(***************************************************************************)
Generate(text, r) ==
  CASE text = 0 -> <<>>
    [] text = 1 -> << F32(<<300 + 100 * r>>) >>
    [] OTHER    -> << F32(<<1200 + r, -(450 + r)>>), I16(<<-(2 + r)>>) >>

Rendition(f, variant) == 2 * (f - 1) + variant

\* chunk list of the document: text of chunk i for a document of n chunks
Document(n, shift) == [i \in 1 .. n |-> (i + shift) % Cardinality(Texts)]

\* the five-chunk job of the resume scenario and the ten-chunk job of the
\* overlapped ordering scenario
ResumeScenario == Document(5, 0)
OrderingScenario == Document(10, 0)


(***************************************************************************)
(* State.                                                                  *)
(***************************************************************************)
VARIABLES
  \* inputs of the job
  chunks,               \* prepared.chunks: the text of every chunk
  deterministic,        \* whether the backend renders a text the same way on every call
  \* the checkpoint store (on disk, survives runs)
  ckpt,                 \* <<>> or <<CheckpointState>>: the persisted aggregate checkpoint
  artifacts,            \* idx -> <<>> or <<int16 array>>: the per-chunk audio files
  \* main()
  runs,                 \* number of runs started
  deletes,              \* number of audio files deleted from outside
  chain,                \* failed checkpointed runs with this fingerprint that this run resumes
  pc,                   \* position of the current run
  error,                \* what the run raised
  fp,                   \* fingerprint (checkpoint config) of the current run
  use_checkpoint, resume, use_mp3_stream,
  loaded_completed,     \* completed set main() handed to the runner
  present_at_start,     \* indices whose audio file existed when the run began
  \* run_sequential_pipeline locals
  idx, completed_chunks, checkpoint_state,
  cumulative_samples, chunk_sample_offsets, times, processed_count,
  checkpoint_parts, gen_pos, rendition,
  \* sinks
  mp3_stdin, spool,
  \* what the outside observes
  events,               \* events.emit calls
  infer_calls,          \* idx -> number of backend.generate calls in this run
  yielded,              \* idx -> the raw buffers the backend yielded in this run
  \* run_overlap3_pipeline
  prefetch_chunks, pcm_queue_size,
  inference_queue, pcm_queue, worker_errors,
  inf_pc, inf_idx, inf_pos,       \* inference_worker: position, chunk, buffers yielded
  cv_pc, cv_msg,                  \* convert_worker: position, message in hand
  chunk_started,
  timeouts,                       \* queue.Empty timeouts of the controller (saturating)
  inf_sent, cv_sent,              \* messages each stage has put on its output queue
  captured,                       \* every exception put on worker_errors
  observed,                       \* messages the controller has taken
  muxed,                          \* buffers the controller has written to the muxer
  \* the command line and the host (cli.py parse_args, runtime.py)
  host,                           \* what runtime.py finds out about the machine
  prior_args,                     \* options of the run that wrote the stored checkpoint
  args,                           \* options of this run
  pipeline_mode, warnings,        \* prepared.pipeline_mode, prepared.warnings
  \* resources of main() and its way out
  backend, mp3_export_proc, spool_path,
  cleanup_calls,                  \* the cleanup functions called, with their outcome
  cleanup_error,                  \* <<>> or the first error a cleanup function returned
  propagated,                     \* the error that leaves main(), "none" if none
  \* split_text_to_chunks (chunking.py)
  chapters,                       \* the texts of the chapters, in order; the
                                  \* title of a chapter is its position
  max_chars,                      \* the chunk_chars argument
  text_chunks,                    \* the list chunks being built
  chapter_start_indices,          \* the list of (chunk index, title)
  chapter_pos,                    \* chapters the for loop is done with
  split_pc,                       \* "unused", "chapters", "returned", "raised"
  \* the rest of the process around the job
  chapter_infos,                  \* <<>>, or <<l>> for the list l of cli.py 569-595
  \* time and the heartbeats (events.py 124-141, pipeline.py 51-59, 204-209)
  now,                            \* time.time(), in quarters of a second
  beat_mode,                      \* the pipeline mode of the job being timed
  beat_pc,                        \* where main() and its runner are
  beat_idx,                       \* chunks the runner is done with
  hb_thread,                      \* the parse-heartbeat thread
  hb_deadline,                    \* when its stop_event.wait(interval) runs out
  last_heartbeat,                 \* the runner's last_heartbeat
  beats,                          \* the heartbeat events: <<time, emitter>>
  beat_step,                      \* what the controller's last queue read gave
  \* the finally of the overlapped runner (pipeline.py 323-325)
  join_deadline,                  \* when the join in progress times out
  joined,                         \* the threads whose join has returned
  closes,                         \* calls of events.close() (cli.py 667)
  \* the resolutions of a process (runtime.py 21, 119-156; job.py 93-100)
  AUTO_BACKEND_CACHE,             \* _AUTO_BACKEND_CACHE: <<>> for None
  probes,                         \* runs of the host probe of resolve_backend
  resolved                        \* the resolutions so far, in order

storeVars == <<ckpt, artifacts>>
inputVars == <<chunks, deterministic>>
mainVars == <<runs, deletes, chain, pc, error, fp, use_checkpoint, resume, use_mp3_stream,
              loaded_completed, present_at_start>>
seqVars == <<idx, completed_chunks, checkpoint_state, cumulative_samples,
             chunk_sample_offsets, times, processed_count, checkpoint_parts,
             gen_pos, rendition>>
sinkVars == <<mp3_stdin, spool>>
obsVars == <<events, infer_calls, yielded>>
ovVars == <<prefetch_chunks, pcm_queue_size, inference_queue, pcm_queue,
           worker_errors, inf_pc, inf_idx, inf_pos, cv_pc, cv_msg,
           chunk_started, timeouts, inf_sent, cv_sent, captured, observed,
           muxed>>
splitVars == <<chapters, max_chars, text_chunks, chapter_start_indices,
              chapter_pos, split_pc>>
beatVars == <<now, beat_mode, beat_pc, beat_idx, hb_thread, hb_deadline,
             last_heartbeat, beats, beat_step>>
joinVars == <<join_deadline, joined>>
resolveVars == <<AUTO_BACKEND_CACHE, probes, resolved>>
processVars == <<chapter_infos, beatVars, joinVars, closes, resolveVars>>
jobVars == <<host, prior_args, args, pipeline_mode, warnings, backend,
            spool_path, cleanup_calls, cleanup_error, propagated, splitVars,
            processVars>>
vars == <<inputVars, storeVars, mainVars, seqVars, sinkVars, obsVars, ovVars,
          jobVars, mp3_export_proc>>

total_chunks == Len(chunks)
ChunkIdx == 0 .. (total_chunks - 1)
ChunkText(i) == chunks[i + 1]

\* events.emit(type, ...): detail is the integer field, note the text field
Event(type, code, detail, note) == <<type, code, detail, note>>

(***************************************************************************)
(* The checkpoint store (module checkpoint).                               *)
(***************************************************************************)
\* the EPUB of the job, and another EPUB once converted to the same output
Input == "book.epub"
OtherInput == "other.epub"

\* compute_epub_hash(path): the content hash of the file
compute_epub_hash(input) == <<"sha256", input>>

CheckpointState(h, f, n, completed) ==
  [epub_hash |-> h, config |-> f, total_chunks |-> n,
   completed_chunks |-> completed]

\* verify_checkpoint(dir, input, config): a checkpoint exists and both the
\* hash of the input and the config match
verify_checkpoint(store, input, f) ==
  /\ store # <<>>
  /\ store[1].epub_hash = compute_epub_hash(input)
  /\ store[1].config = f

\* load_chunk_audio(dir, idx): the stored array, or nothing
load_chunk_audio(store, i) == store[i]

\* save_chunk_audio(dir, idx, audio)
save_chunk_audio(store, i, audio) == [store EXCEPT ![i] = <<audio>>]

\* a save_chunk_audio that raises part way leaves the old file or a torn one
TornArtifact(audio) ==
  IF audio.data = <<>> THEN audio
  ELSE I16(SubSeq(audio.data, 1, Len(audio.data) - 1))

\* cleanup_checkpoint(dir)
cleanup_checkpoint_artifacts(store) == [i \in DOMAIN store |-> <<>>]

(***************************************************************************)
(* Sinks: the live muxer input or the spool file, chosen before the loop.  *)
(***************************************************************************)
\* mutation: the bytes of a buffer reach the sink twice
SinkWriteTwice(bytes) ==
  IF use_mp3_stream
    THEN /\ mp3_stdin' = mp3_stdin \o bytes \o bytes
         /\ UNCHANGED spool
    ELSE /\ spool' = spool \o bytes \o bytes
         /\ UNCHANGED mp3_stdin

SinkWrite(bytes) ==
  IF use_mp3_stream
    THEN /\ mp3_stdin' = mp3_stdin \o bytes
         /\ UNCHANGED spool
    ELSE /\ spool' = spool \o bytes
         /\ UNCHANGED mp3_stdin

ActiveSink == IF use_mp3_stream THEN mp3_stdin ELSE spool


(***************************************************************************)
(* main(): checkpoint verification and set-up of one run                   *)
(* (cli.py 392-472), then the start of run_sequential_pipeline (47-52).    *)
(***************************************************************************)
Inactive == pc \in {"idle", "failed", "done"}

\* cli.py 396-403: resume is requested and the stored checkpoint verifies
Verified(use_cp, rs, f) ==
  use_cp /\ rs /\ verify_checkpoint(ckpt, Input, f)

\* mutation: the chunk count of the stored checkpoint is not compared
ResumingAnyTotal(use_cp, rs, f) == Verified(use_cp, rs, f)

\* cli.py 404: ... and it was written for the same number of chunks
Resuming(use_cp, rs, f) ==
  Verified(use_cp, rs, f) /\ ckpt[1].total_chunks = total_chunks

\* cli.py 405: the completed set the run starts from
LoadedCompleted(use_cp, rs, f) ==
  IF Resuming(use_cp, rs, f) THEN SeqToSet(ckpt[1].completed_chunks) ELSE {}

\* cli.py 407-411: the checkpoint event of the resume decision
ResumeEvents(use_cp, rs, f) ==
  IF ~(use_cp /\ rs) THEN <<>>
  ELSE IF Resuming(use_cp, rs, f)
    THEN <<Event("checkpoint", "RESUMING",
                 Cardinality(LoadedCompleted(use_cp, rs, f)), "")>>
  ELSE IF Verified(use_cp, rs, f)
    THEN <<Event("checkpoint", "INVALID", -1, "chunk_mismatch")>>
  ELSE <<Event("checkpoint", "INVALID", -1, "config_mismatch")>>

\* cli.py 454-472: the checkpoint state the run persists before the loop
StartState(use_cp, rs, f) ==
  IF Resuming(use_cp, rs, f)
    THEN [ckpt[1] EXCEPT
            !.completed_chunks = SortedSeq(LoadedCompleted(use_cp, rs, f))]
    ELSE CheckpointState(compute_epub_hash(Input), f, total_chunks,
                         SortedSeq(LoadedCompleted(use_cp, rs, f)))

\* mutation: an mp3 job streams to the muxer even when it checkpoints
UseMp3StreamAnyMp3(format, use_cp) == format = "mp3"

\* cli.py 438: the sink of the run
UseMp3Stream(format, use_cp) == format = "mp3" /\ ~use_cp

\* cli.py 356: the phase main() announces before prepare_job
ParsingPhase == <<Event("phase", "PARSING", -1, "")>>

\* cli.py 392-472 and pipeline.py 47-66: what main() and the runner set up
\* for a run with these flags, this config and this output format; before
\* are the events main() emitted before line 392
RunSetup(ck, rs, f, format, before) ==
  LET use_cp == ck \/ rs
      resuming == Resuming(use_cp, rs, f)
      completed == LoadedCompleted(use_cp, rs, f)
      checkpointEvent == ResumeEvents(use_cp, rs, f)
      state == StartState(use_cp, rs, f)
  IN
  /\ runs' = runs + 1
  /\ chain' = IF resuming /\ pc = "failed" /\ use_checkpoint /\ fp = f
                THEN chain + 1 ELSE 0
  /\ fp' = f
  /\ use_checkpoint' = use_cp
  /\ resume' = rs
  /\ use_mp3_stream' = UseMp3Stream(format, use_cp)
  /\ loaded_completed' = completed
  /\ present_at_start' = {i \in ChunkIdx : artifacts[i] # <<>>}
  /\ completed_chunks' = completed
  /\ checkpoint_state' = IF use_cp THEN <<state>> ELSE <<>>
  /\ ckpt' = IF use_cp THEN <<state>> ELSE ckpt
  /\ events' = before \o checkpointEvent
                  \o <<Event("phase", "INFERENCE", -1, "")>>
  /\ mp3_stdin' = <<>>
  /\ spool' = <<>>
  /\ idx' = 0
  /\ cumulative_samples' = 0
  /\ chunk_sample_offsets' = [i \in ChunkIdx |-> 0]
  /\ times' = <<>>
  /\ processed_count' = 0
  /\ checkpoint_parts' = [active |-> FALSE, parts |-> <<>>]
  /\ gen_pos' = 0
  /\ rendition' = 0
  /\ infer_calls' = [i \in ChunkIdx |-> 0]
  /\ yielded' = [i \in ChunkIdx |-> <<>>]
  /\ error' = "none"
  /\ UNCHANGED <<inputVars, artifacts, deletes>>

MainStart(ck, rs, f) ==
  /\ Inactive
  /\ runs < MaxRuns
  /\ RunSetup(ck, rs, f, FormatOf(f), <<>>)
  /\ pc' = "loop"
  /\ UNCHANGED <<jobVars, mp3_export_proc, ovVars>>

(***************************************************************************)
(* run_sequential_pipeline, one chunk at a time (pipeline.py 67-163).      *)
(***************************************************************************)
\* mutation: the membership test looks at the next index
ReuseCandidateOffByOne ==
  use_checkpoint /\ resume /\ (idx + 1) \in completed_chunks

\* line 71: the chunk is a candidate for reuse
ReuseCandidate == use_checkpoint /\ resume /\ idx \in completed_chunks

\* mutation: the index stays marked completed
DiscardNothing(S, i) == S

\* line 96: completed_chunks.discard(idx)
DiscardCompleted(S, i) == S \ {i}

\* mutation: a regenerated index is not marked completed
AddNothing(S, i) == S

\* line 141: completed_chunks.add(idx)
AddCompleted(S, i) == S \cup {i}

\* lines 154-163: count the chunk, report progress, next iteration
Advance(evs) ==
  /\ processed_count' = processed_count + 1
  /\ events' = events \o evs
                 \o <<Event("progress", "", processed_count + 1, "")>>
  /\ idx' = idx + 1
  /\ pc' = "loop"

Raise(kind) ==
  /\ pc' = "failed"
  /\ error' = kind

\* lines 68-94: the stored artifact is found and written to the sink
SeqReuseChunk ==
  /\ pc = "loop" /\ idx < total_chunks
  /\ ReuseCandidate
  /\ load_chunk_audio(artifacts, idx) # <<>>
  /\ LET loaded == load_chunk_audio(artifacts, idx)[1]
         chunk_audio == IF loaded.dtype # "int16"
                          THEN audio_to_int16(loaded) ELSE loaded
     IN /\ chunk_sample_offsets' =
             [chunk_sample_offsets EXCEPT ![idx] = cumulative_samples]
        /\ SinkWrite(tobytes(chunk_audio.data))
        /\ cumulative_samples' = cumulative_samples + Len(chunk_audio.data)
        /\ Advance(<<Event("worker", "ENCODE", idx, "Reused checkpoint chunk"),
                     Event("checkpoint", "REUSED", idx, "")>>)
  /\ UNCHANGED <<inputVars, jobVars, mp3_export_proc, storeVars, runs, deletes, chain, error, fp, use_checkpoint,
                 resume, use_mp3_stream, loaded_completed, present_at_start, completed_chunks,
                 checkpoint_state, times, checkpoint_parts, gen_pos, rendition,
                 infer_calls, yielded, ovVars>>

\* lines 80/84: the sink write of a reused artifact raises
SeqReuseWriteRaise ==
  /\ pc = "loop" /\ idx < total_chunks
  /\ ReuseCandidate
  /\ load_chunk_audio(artifacts, idx) # <<>>
  /\ chunk_sample_offsets' =
       [chunk_sample_offsets EXCEPT ![idx] = cumulative_samples]
  /\ Raise("write")
  /\ UNCHANGED <<inputVars, jobVars, mp3_export_proc, storeVars, runs, deletes, chain, fp, use_checkpoint,
                 resume, use_mp3_stream, loaded_completed, present_at_start, idx, completed_chunks,
                 checkpoint_state, cumulative_samples, times, processed_count,
                 checkpoint_parts, gen_pos, rendition, sinkVars, obsVars, ovVars>>

\* mutation: the starting offset of the chunk is not recorded
InferStartUnrecorded(evs) ==
  /\ UNCHANGED chunk_sample_offsets
  /\ events' = evs \o <<Event("worker", "INFER", idx, "Chunk")>>
  /\ checkpoint_parts' = [active |-> use_checkpoint, parts |-> <<>>]
  /\ infer_calls' = [infer_calls EXCEPT ![idx] = @ + 1]
  /\ \E variant \in (IF deterministic THEN {0} ELSE {0, 1}) :
       rendition' = Rendition(fp, variant)
  /\ gen_pos' = 0
  /\ pc' = "infer"

\* lines 102-117: inference of the chunk begins, backend.generate is called
InferStart(evs) ==
  /\ chunk_sample_offsets' =
       [chunk_sample_offsets EXCEPT ![idx] = cumulative_samples]
  /\ events' = evs \o <<Event("worker", "INFER", idx, "Chunk")>>
  /\ checkpoint_parts' = [active |-> use_checkpoint, parts |-> <<>>]
  /\ infer_calls' = [infer_calls EXCEPT ![idx] = @ + 1]
  /\ \E variant \in (IF deterministic THEN {0} ELSE {0, 1}) :
       rendition' = Rendition(fp, variant)
  /\ gen_pos' = 0
  /\ pc' = "infer"

\* lines 95-100 then 102-117: the artifact of a completed chunk is gone
SeqMissingAudio ==
  /\ pc = "loop" /\ idx < total_chunks
  /\ ReuseCandidate
  /\ load_chunk_audio(artifacts, idx) = <<>>
  /\ completed_chunks' = DiscardCompleted(completed_chunks, idx)
  /\ IF checkpoint_state # <<>>
       THEN /\ checkpoint_state' =
                 <<[checkpoint_state[1] EXCEPT
                     !.completed_chunks = SortedSeq(completed_chunks')]>>
            /\ ckpt' = checkpoint_state'
       ELSE UNCHANGED <<checkpoint_state, ckpt>>
  /\ InferStart(events \o <<Event("checkpoint", "MISSING_AUDIO", idx, "")>>)
  /\ UNCHANGED <<inputVars, jobVars, mp3_export_proc, artifacts, runs, deletes, chain, error, fp, use_checkpoint,
                 resume, use_mp3_stream, loaded_completed, present_at_start, idx,
                 cumulative_samples, times, processed_count, sinkVars,
                 yielded, ovVars>>

\* lines 71, 102-117: the chunk is not a reuse candidate
SeqInferChunk ==
  /\ pc = "loop" /\ idx < total_chunks
  /\ ~ReuseCandidate
  /\ InferStart(events)
  /\ UNCHANGED <<inputVars, jobVars, mp3_export_proc, storeVars, runs, deletes, chain, error, fp, use_checkpoint,
                 resume, use_mp3_stream, loaded_completed, present_at_start, idx,
                 completed_chunks, checkpoint_state, cumulative_samples, times,
                 processed_count, sinkVars, yielded, ovVars>>


\* lines 96-99: persisting the repaired checkpoint raises
SeqMissingSaveRaise ==
  /\ pc = "loop" /\ idx < total_chunks
  /\ ReuseCandidate
  /\ load_chunk_audio(artifacts, idx) = <<>>
  /\ checkpoint_state # <<>>
  /\ chunk_sample_offsets' =
       [chunk_sample_offsets EXCEPT ![idx] = cumulative_samples]
  /\ completed_chunks' = DiscardCompleted(completed_chunks, idx)
  /\ checkpoint_state' =
       <<[checkpoint_state[1] EXCEPT
           !.completed_chunks = SortedSeq(completed_chunks')]>>
  /\ Raise("save_checkpoint")
  /\ UNCHANGED <<inputVars, jobVars, mp3_export_proc, storeVars, runs, deletes, chain, fp, use_checkpoint,
                 resume, use_mp3_stream, loaded_completed, present_at_start, idx,
                 cumulative_samples, times, processed_count, checkpoint_parts,
                 gen_pos, rendition, sinkVars, obsVars, ovVars>>

\* what the backend.generate call in progress yields
Buffers == Generate(ChunkText(idx), rendition)

\* lines 112-130: one buffer arrives, is converted and written at once
SeqInferBuffer ==
  /\ pc = "infer"
  /\ gen_pos < Len(Buffers)
  /\ LET audio == Buffers[gen_pos + 1]
         int16_audio == audio_to_int16(audio)
     IN /\ yielded' = [yielded EXCEPT ![idx] = Append(@, audio)]
        /\ SinkWrite(tobytes(int16_audio.data))
        /\ cumulative_samples' = cumulative_samples + Len(int16_audio.data)
        /\ checkpoint_parts' =
             IF checkpoint_parts.active
               THEN [checkpoint_parts EXCEPT !.parts = Append(@, int16_audio)]
               ELSE checkpoint_parts
  /\ gen_pos' = gen_pos + 1
  /\ UNCHANGED <<inputVars, jobVars, mp3_export_proc, storeVars, mainVars, idx, completed_chunks,
                 checkpoint_state, chunk_sample_offsets, times, processed_count,
                 rendition, events, infer_calls, ovVars>>

\* lines 122/126: the sink write of a fresh buffer raises
SeqWriteRaise ==
  /\ pc = "infer"
  /\ gen_pos < Len(Buffers)
  /\ yielded' = [yielded EXCEPT ![idx] = Append(@, Buffers[gen_pos + 1])]
  /\ Raise("write")
  /\ UNCHANGED <<inputVars, jobVars, mp3_export_proc, storeVars, runs, deletes, chain, fp, use_checkpoint,
                 resume, use_mp3_stream, loaded_completed, present_at_start, seqVars, sinkVars,
                 events, infer_calls, ovVars>>

\* mutation: a failed backend.generate is called again for the same chunk
SeqGenerateRetry ==
  /\ pc = "infer"
  /\ infer_calls[idx] < 2
  /\ infer_calls' = [infer_calls EXCEPT ![idx] = @ + 1]
  /\ gen_pos' = 0
  /\ UNCHANGED <<inputVars, jobVars, mp3_export_proc, storeVars, mainVars, idx, completed_chunks,
                 checkpoint_state, cumulative_samples, chunk_sample_offsets,
                 times, processed_count, checkpoint_parts, rendition, sinkVars,
                 events, yielded, ovVars>>

\* line 112: backend.generate raises, before or between buffers
SeqGenerateRaise ==
  /\ pc = "infer"
  /\ Raise("generate")
  /\ UNCHANGED <<inputVars, jobVars, mp3_export_proc, storeVars, runs, deletes, chain, fp, use_checkpoint,
                 resume, use_mp3_stream, loaded_completed, present_at_start, seqVars, sinkVars,
                 obsVars, ovVars>>

\* mutation: only the last buffer of the chunk is kept for the artifact
ChunkAudioLastPart ==
  IF checkpoint_parts.parts = <<>> THEN I16(<<>>)
  ELSE checkpoint_parts.parts[Len(checkpoint_parts.parts)]

\* lines 135-139
ChunkAudio == Concatenate(checkpoint_parts.parts)

\* lines 132-163: the generator is exhausted, the chunk is committed
SeqFinishChunk ==
  /\ pc = "infer"
  /\ gen_pos = Len(Buffers)
  /\ times' = Append(times, idx)
  /\ IF checkpoint_parts.active
       THEN /\ artifacts' = save_chunk_audio(artifacts, idx, ChunkAudio)
            /\ completed_chunks' = AddCompleted(completed_chunks, idx)
            /\ IF checkpoint_state # <<>>
                 THEN /\ checkpoint_state' =
                           <<[checkpoint_state[1] EXCEPT
                               !.completed_chunks = SortedSeq(completed_chunks')]>>
                      /\ ckpt' = checkpoint_state'
                 ELSE UNCHANGED <<checkpoint_state, ckpt>>
            /\ Advance(<<Event("checkpoint", "SAVED", idx, ""),
                         Event("timing", "infer", idx, "")>>)
       ELSE /\ UNCHANGED <<artifacts, completed_chunks, checkpoint_state, ckpt>>
            /\ Advance(<<Event("timing", "infer", idx, "")>>)
  /\ UNCHANGED <<inputVars, jobVars, mp3_export_proc, runs, deletes, chain, error, fp, use_checkpoint, resume,
                 use_mp3_stream, loaded_completed, present_at_start, cumulative_samples,
                 chunk_sample_offsets, checkpoint_parts, gen_pos, rendition,
                 sinkVars, infer_calls, yielded, ovVars>>

\* mutation: the index is marked and the checkpoint persisted before the
\* artifact is saved, and the save raises
SeqSaveChunkAudioRaiseMarked ==
  /\ pc = "infer"
  /\ gen_pos = Len(Buffers)
  /\ checkpoint_parts.active
  /\ checkpoint_state # <<>>
  /\ times' = Append(times, idx)
  /\ completed_chunks' = AddCompleted(completed_chunks, idx)
  /\ checkpoint_state' =
       <<[checkpoint_state[1] EXCEPT
           !.completed_chunks = SortedSeq(completed_chunks')]>>
  /\ ckpt' = checkpoint_state'
  /\ Raise("save_chunk_audio")
  /\ UNCHANGED <<inputVars, jobVars, mp3_export_proc, artifacts, runs, deletes,
                 chain, fp, use_checkpoint, resume, use_mp3_stream,
                 loaded_completed, present_at_start, idx, cumulative_samples,
                 chunk_sample_offsets, processed_count, checkpoint_parts,
                 gen_pos, rendition, sinkVars, obsVars, ovVars>>

\* line 140: save_chunk_audio raises; the old file or a torn one is left
SeqSaveChunkAudioRaise ==
  /\ pc = "infer"
  /\ gen_pos = Len(Buffers)
  /\ checkpoint_parts.active
  /\ times' = Append(times, idx)
  /\ \E torn \in BOOLEAN :
       artifacts' = IF torn
                      THEN save_chunk_audio(artifacts, idx, TornArtifact(ChunkAudio))
                      ELSE artifacts
  /\ Raise("save_chunk_audio")
  /\ UNCHANGED <<inputVars, jobVars, mp3_export_proc, ckpt, runs, deletes, chain, fp, use_checkpoint, resume,
                 use_mp3_stream, loaded_completed, present_at_start, idx, completed_chunks,
                 checkpoint_state, cumulative_samples, chunk_sample_offsets,
                 processed_count, checkpoint_parts, gen_pos, rendition,
                 sinkVars, obsVars, ovVars>>

\* line 144: save_checkpoint raises after the artifact was saved
SeqSaveCheckpointRaise ==
  /\ pc = "infer"
  /\ gen_pos = Len(Buffers)
  /\ checkpoint_parts.active
  /\ checkpoint_state # <<>>
  /\ times' = Append(times, idx)
  /\ artifacts' = save_chunk_audio(artifacts, idx, ChunkAudio)
  /\ completed_chunks' = AddCompleted(completed_chunks, idx)
  /\ checkpoint_state' =
       <<[checkpoint_state[1] EXCEPT
           !.completed_chunks = SortedSeq(completed_chunks')]>>
  /\ Raise("save_checkpoint")
  /\ UNCHANGED <<inputVars, jobVars, mp3_export_proc, ckpt, runs, deletes, chain, fp, use_checkpoint, resume,
                 use_mp3_stream, loaded_completed, present_at_start, idx, cumulative_samples,
                 chunk_sample_offsets, processed_count, checkpoint_parts,
                 gen_pos, rendition, sinkVars, obsVars, ovVars>>

\* lines 165-170: the loop is over, the result is returned
SeqReturn ==
  /\ pc = "loop" /\ idx = total_chunks
  /\ pc' = "returned"
  /\ UNCHANGED <<inputVars, jobVars, mp3_export_proc, storeVars, runs, deletes, chain, error, fp, use_checkpoint,
                 resume, use_mp3_stream, loaded_completed, present_at_start, seqVars, sinkVars,
                 obsVars, ovVars>>

(***************************************************************************)
(* main() after the runner (cli.py 563-638) and the outside world.         *)
(***************************************************************************)
\* mutation: the export is announced before the concatenation
ExportPhasesSwapped ==
  <<Event("phase", "EXPORTING", -1, ""), Event("phase", "CONCATENATING", -1, "")>>

\* lines 563-564, 592: the phases main() announces up to the export
ExportPhases ==
  <<Event("phase", "CONCATENATING", -1, ""), Event("phase", "EXPORTING", -1, "")>>

\* mutation: only a resumed run deletes its checkpoint
should_cleanup_checkpoint_when_resumed == use_checkpoint /\ resume

\* line 623
should_cleanup_checkpoint == use_checkpoint

\* lines 563-632: export succeeds (a live muxer stream is closed and
\* forgotten); a checkpointed run then deletes its checkpoint
MainExportDone ==
  /\ pc = "returned"
  /\ mp3_export_proc' = IF use_mp3_stream THEN "none" ELSE mp3_export_proc
  /\ IF should_cleanup_checkpoint
       THEN /\ ckpt' = <<>>
            /\ artifacts' = cleanup_checkpoint_artifacts(artifacts)
            /\ events' = events \o ExportPhases
                            \o <<Event("checkpoint", "CLEANED", -1, ""),
                                 Event("done", "", total_chunks, "")>>
       ELSE /\ UNCHANGED storeVars
            /\ events' = events \o ExportPhases
                            \o <<Event("done", "", total_chunks, "")>>
  /\ pc' = "done"
  /\ UNCHANGED <<inputVars, jobVars, runs, deletes, chain, error, fp, use_checkpoint, resume,
                 use_mp3_stream, loaded_completed, present_at_start, seqVars, sinkVars,
                 infer_calls, yielded, ovVars>>

\* export raises: the checkpoint stays
MainExportRaise ==
  /\ pc = "returned"
  /\ events' = events \o ExportPhases
  /\ Raise("export")
  /\ UNCHANGED <<inputVars, jobVars, mp3_export_proc, storeVars, runs, deletes, chain, fp, use_checkpoint,
                 resume, use_mp3_stream, loaded_completed, present_at_start, seqVars, sinkVars,
                 infer_calls, yielded, ovVars>>

\* between two runs somebody deletes the audio file of a chunk
ExternalDelete(i) ==
  /\ Inactive
  /\ 0 < runs /\ runs < MaxRuns
  /\ deletes < MaxDeletes
  /\ artifacts[i] # <<>>
  /\ artifacts' = [artifacts EXCEPT ![i] = <<>>]
  /\ deletes' = deletes + 1
  /\ UNCHANGED <<inputVars, jobVars, mp3_export_proc, ckpt, runs, chain, pc, error, fp, use_checkpoint,
                 resume, use_mp3_stream, loaded_completed, present_at_start, seqVars, sinkVars,
                 obsVars, ovVars>>

\* the variables of the runner that is not running
OvUnused ==
  /\ prefetch_chunks = 1 /\ pcm_queue_size = 1
  /\ inference_queue = <<>> /\ pcm_queue = <<>> /\ worker_errors = <<>>
  /\ inf_pc = "unstarted" /\ inf_idx = 0 /\ inf_pos = 0
  /\ cv_pc = "unstarted" /\ cv_msg = <<>>
  /\ chunk_started = [i \in ChunkIdx |-> FALSE]
  /\ timeouts = 0
  /\ inf_sent = <<>> /\ cv_sent = <<>> /\ captured = <<>>
  /\ observed = <<>> /\ muxed = <<>>

(***************************************************************************)
(* The sequential job: runs of main() over one document.                   *)
(***************************************************************************)
\* nothing of the process around the job is looked at
BeatUnused ==
  /\ now = 0 /\ beat_mode = "unset" /\ beat_pc = "unused" /\ beat_idx = 0
  /\ hb_thread = "none" /\ hb_deadline = 0 /\ last_heartbeat = 0
  /\ beats = <<>> /\ beat_step = "none"

JoinUnused == join_deadline = 0 /\ joined = <<>>

ResolveUnused == AUTO_BACKEND_CACHE = <<>> /\ probes = 0 /\ resolved = <<>>

ProcessUnused ==
  /\ chapter_infos = <<>>
  /\ BeatUnused
  /\ JoinUnused
  /\ closes = 0
  /\ ResolveUnused

\* split_text_to_chunks is not part of these runs
SplitUnused ==
  /\ chapters = <<>> /\ max_chars = 0
  /\ text_chunks = <<>> /\ chapter_start_indices = <<>>
  /\ chapter_pos = 0 /\ split_pc = "unused"
  /\ ProcessUnused

\* the variables of the command line, where the options are given per run
JobUnused ==
  /\ host = <<>> /\ prior_args = <<>> /\ args = <<>>
  /\ pipeline_mode = "unset" /\ warnings = <<>>
  /\ SplitUnused

\* cli.py 414-419: main() holds no resource yet
NoResources ==
  /\ backend = "none" /\ mp3_export_proc = "none" /\ spool_path = "none"
  /\ cleanup_calls = <<>> /\ cleanup_error = <<>> /\ propagated = "none"

\* no run of main() is in progress
IdleButSamples ==
  /\ NoResources
  /\ deletes = 0
  /\ chain = 0
  /\ pc = "idle"
  /\ error = "none"
  /\ fp = 1
  /\ use_checkpoint = FALSE
  /\ resume = FALSE
  /\ use_mp3_stream = FALSE
  /\ loaded_completed = {}
  /\ present_at_start = {}
  /\ idx = 0
  /\ completed_chunks = {}
  /\ checkpoint_state = <<>>
  /\ times = <<>>
  /\ processed_count = 0
  /\ checkpoint_parts = [active |-> FALSE, parts |-> <<>>]
  /\ gen_pos = 0
  /\ rendition = 0
  /\ mp3_stdin = <<>>
  /\ spool = <<>>
  /\ events = <<>>
  /\ infer_calls = [i \in ChunkIdx |-> 0]
  /\ yielded = [i \in ChunkIdx |-> <<>>]
  /\ OvUnused

NoRun ==
  /\ IdleButSamples
  /\ cumulative_samples = 0
  /\ chunk_sample_offsets = [i \in ChunkIdx |-> 0]

InitSeq ==
  /\ \/ /\ \E n \in 1 .. MaxChunks : \E shift \in Texts :
              chunks = Document(n, shift)
        /\ deterministic \in BOOLEAN
     \/ /\ chunks = ResumeScenario
        /\ deterministic = TRUE
  /\ ckpt = <<>>
  /\ artifacts = [i \in ChunkIdx |-> <<>>]
  /\ runs = 0
  /\ NoRun
  /\ JobUnused

NextSeq ==
  \/ \E ck \in BOOLEAN : \E rs \in BOOLEAN : \E f \in Fingerprints :
       MainStart(ck, rs, f)
  \/ SeqReuseChunk
  \/ SeqReuseWriteRaise
  \/ SeqMissingAudio
  \/ SeqMissingSaveRaise
  \/ SeqInferChunk
  \/ SeqInferBuffer
  \/ SeqWriteRaise
  \/ SeqGenerateRaise
  \/ SeqFinishChunk
  \/ SeqSaveChunkAudioRaise
  \/ SeqSaveCheckpointRaise
  \/ SeqReturn
  \/ MainExportDone
  \/ MainExportRaise
  \/ \E i \in ChunkIdx : ExternalDelete(i)

SpecSeq == InitSeq /\ [][NextSeq]_vars


(***************************************************************************)
(* Properties of the sequential runner.                                    *)
(***************************************************************************)
\* indices for which a checkpoint event with this code was emitted in this run
CheckpointEvents(code) ==
  {events[k][3] : k \in {j \in 1 .. Len(events) :
                           events[j][1] = "checkpoint" /\ events[j][2] = code}}

Reused == CheckpointEvents("REUSED")
MissingAudio == CheckpointEvents("MISSING_AUDIO")

\* the int16 samples of a sequence of raw buffers, in order
SamplesOf(buffers) ==
  Flatten([k \in 1 .. Len(buffers) |-> audio_to_int16(buffers[k]).data])

\* the rendering of chunk i in this run: its stored artifact if it was
\* reused, else what the backend yielded for it
RenderingOf(i) ==
  IF i \in Reused THEN audio_to_int16(artifacts[i][1]).data
  ELSE SamplesOf(yielded[i])

\* what one uninterrupted run with fingerprint f produces for chunk i
ExpectedSamples(i, f) == SamplesOf(Generate(ChunkText(i), Rendition(f, 0)))

AllChunks(Samples(_)) ==
  Flatten([k \in 1 .. total_chunks |-> Samples(k - 1)])

OffsetsOf(Samples(_)) ==
  [i \in ChunkIdx |-> SumLen([k \in 1 .. i |-> Samples(k - 1)])]

\* C1: when a sequential run has completed without error, the bytes in the
\* active sink are the concatenation, for chunk 0..N-1 in increasing order,
\* of one rendering of each chunk (the stored artifact for a reused chunk,
\* otherwise the buffers the backend yielded for it, in yield order), and
\* nothing went to the other sink.
C1_SinkIsConcatenation ==
  pc = "returned" =>
    /\ ActiveSink = tobytes(AllChunks(RenderingOf))
    /\ (IF use_mp3_stream THEN spool ELSE mp3_stdin) = <<>>

\* C1 witness: a completed run that reused one chunk and wrote a chunk of
\* two freshly inferred buffers
C1_Witness ==
  /\ pc = "returned"
  /\ Reused # {}
  /\ \E i \in ChunkIdx : i \notin Reused /\ Len(yielded[i]) = 2
  /\ Len(ActiveSink) >= 6

ExpectedOf(i) == ExpectedSamples(i, fp)

C3_ReuseIff ==
  pc = "returned" =>
    \A i \in ChunkIdx :
      /\ i \in Reused <=>
           (use_checkpoint /\ resume /\ i \in loaded_completed
              /\ i \in present_at_start)
      /\ infer_calls[i] = (IF i \in Reused THEN 0 ELSE 1)

\* C3 witness: the five-chunk job resumed with completed = {0,1,2}: chunks
\* 0-2 reused, chunks 3 and 4 inferred
C3_Witness ==
  /\ pc = "returned"
  /\ total_chunks = 5
  /\ loaded_completed = {0, 1, 2}
  /\ Reused = {0, 1, 2}
  /\ infer_calls = [i \in ChunkIdx |-> IF i \in {3, 4} THEN 1 ELSE 0]

\* the runner stands at a chunk marked completed whose artifact does not load
AtMissingArtifact ==
  /\ pc = "loop" /\ idx < total_chunks
  /\ ReuseCandidate
  /\ load_chunk_audio(artifacts, idx) = <<>>

\* C4 (step): at a completed index whose artifact does not load the runner
\* goes on to inference instead of raising (unless persisting the checkpoint
\* itself fails): the index leaves the completed set, the checkpoint is
\* persisted without it, MISSING_AUDIO is emitted for it and the backend is
\* called for it.
C4_MissingStep ==
  (AtMissingArtifact /\ error' # "save_checkpoint") =>
    /\ pc' = "infer" /\ error' = "none" /\ idx' = idx
    /\ idx \notin completed_chunks'
    /\ ckpt' # <<>> /\ idx \notin SeqToSet(ckpt'[1].completed_chunks)
    /\ SeqToSet(ckpt'[1].completed_chunks) = completed_chunks \ {idx}
    /\ events' = events \o <<Event("checkpoint", "MISSING_AUDIO", idx, ""),
                             Event("worker", "INFER", idx, "Chunk")>>
    /\ infer_calls' = [infer_calls EXCEPT ![idx] = @ + 1]

\* C4 (outcome): once the runner is past such a chunk in the same run, the
\* chunk was inferred once, its new artifact is saved and it is back in the
\* completed set and in the persisted checkpoint.
C4_Regenerated ==
  \A i \in MissingAudio :
    (pc \in {"loop", "infer", "returned"} /\ i < idx) =>
      /\ infer_calls[i] = 1
      /\ artifacts[i] = <<I16(SamplesOf(yielded[i]))>>
      /\ i \in completed_chunks
      /\ ckpt # <<>> /\ i \in SeqToSet(ckpt[1].completed_chunks)

\* C4: a completed index whose artifact is gone is repaired and regenerated
\* in the same run, without an error.
C4_MissingAudioRegenerated ==
  [][C4_MissingStep]_vars /\ []C4_Regenerated

\* C4 witness: a run that found two buffers' worth of audio missing for a
\* completed chunk, regenerated it and completed
C4_Witness ==
  /\ pc = "returned"
  /\ \E i \in MissingAudio :
       /\ i \in loaded_completed
       /\ i \in completed_chunks
       /\ Len(yielded[i]) = 2

\* the run is inside the chunk loop
InChunkLoop == pc \in {"loop", "infer"}

\* C11 (step): when inference or a sink write raises, the run stops at that
\* chunk with that error, and the failing step saves no artifact, persists
\* nothing, adds nothing to the completed set and calls the backend no more.
C11_FailStep ==
  (InChunkLoop /\ pc' = "failed" /\ error' \in {"generate", "write"}) =>
    /\ idx' = idx
    /\ storeVars' = storeVars
    /\ completed_chunks' = completed_chunks
    /\ infer_calls' = infer_calls
    /\ (idx \in completed_chunks' => idx \in loaded_completed)

\* C11 (state): the backend is called at most once per chunk and never for a
\* chunk after the one that failed; the chunk under inference is not in the
\* completed set nor in the persisted one; and in a checkpointed run every
\* chunk before the current one is in the persisted completed set with its
\* artifact on disk holding its rendering.
C11_State ==
  /\ \A i \in ChunkIdx : infer_calls[i] <= 1
  /\ (pc = "failed" /\ error \in {"generate", "write"}) =>
       \A i \in ChunkIdx : i > idx => infer_calls[i] = 0
  /\ pc = "infer" =>
       /\ infer_calls[idx] = 1
       /\ idx \notin completed_chunks
       /\ use_checkpoint => idx \notin SeqToSet(ckpt[1].completed_chunks)
  /\ (InChunkLoop /\ use_checkpoint) =>
       \A i \in ChunkIdx : i < idx =>
         /\ i \in completed_chunks
         /\ i \in SeqToSet(ckpt[1].completed_chunks)
         /\ artifacts[i] = <<I16(RenderingOf(i))>>

\* C11: a failure of inference or of a sink write at chunk k aborts the run
\* without retry and without committing k, and leaves every chunk completed
\* before it persisted with its artifact.
C11_FailureLeavesPriorWork ==
  [][C11_FailStep]_vars /\ []C11_State

\* C11 witness: a checkpointed run failed in backend.generate at a later
\* chunk after one buffer of it had been written; the chunk is not completed
\* and has no artifact, the chunk before it is persisted with its artifact
C11_Witness ==
  /\ pc = "failed" /\ error = "generate"
  /\ use_checkpoint
  /\ idx >= 1 /\ gen_pos = 1
  /\ idx \notin completed_chunks /\ artifacts[idx] = <<>>
  /\ (idx - 1) \in SeqToSet(ckpt[1].completed_chunks)
  /\ artifacts[idx - 1] # <<>>


(***************************************************************************)
(* Resuming over what an earlier job left in the checkpoint directory      *)
(* (cli.py 392-412, 454-472): a job on the same output path, of this EPUB  *)
(* or of another one, with some config and some chunking, that failed      *)
(* after k chunks.                                                         *)
(***************************************************************************)
PriorText(input, i) ==
  IF input = Input THEN ChunkText(i)
  ELSE (ChunkText(i) + 1) % Cardinality(Texts)

PriorCheckpoint(input, f, n, k) ==
  <<CheckpointState(compute_epub_hash(input), f, n, SortedSeq(0 .. (k - 1)))>>

PriorArtifacts(input, f, k) ==
  [i \in ChunkIdx |->
     IF i < k
       THEN <<I16(SamplesOf(Generate(PriorText(input, i), Rendition(f, 0))))>>
       ELSE <<>>]

InitResume ==
  /\ \E n \in 1 .. MaxChunks : \E shift \in Texts :
       chunks = Document(n, shift)
  /\ deterministic = TRUE
  /\ \E input \in {Input, OtherInput} : \E f \in Fingerprints :
       \E n \in {total_chunks, total_chunks + 1} : \E k \in 0 .. total_chunks :
         /\ ckpt = PriorCheckpoint(input, f, n, k)
         /\ artifacts = PriorArtifacts(input, f, k)
  /\ runs = 1
  /\ NoRun
  /\ JobUnused

SpecResume == InitResume /\ [][NextSeq]_vars

\* the run began by reporting the stored checkpoint as invalid
HasInvalid ==
  /\ pc # "idle" /\ events # <<>>
  /\ events[1][1] = "checkpoint" /\ events[1][2] = "INVALID"

\* C12 (step): when a run is started with resume and the stored checkpoint
\* does not verify for this input and config, or was written for another
\* chunk count, the run is started all the same: INVALID is the first
\* event, the completed set is empty and a fresh checkpoint state is
\* persisted before any chunk is processed.
C12_RefusedStep ==
  (Inactive /\ pc' # pc /\ resume') =>
    LET verifies == verify_checkpoint(ckpt, Input, fp')
        compatible == verifies /\ ckpt[1].total_chunks = total_chunks
    IN ~compatible =>
         /\ pc' = "loop" /\ error' = "none"
         /\ events'[1] = Event("checkpoint", "INVALID", -1,
                               IF verifies THEN "chunk_mismatch"
                               ELSE "config_mismatch")
         /\ completed_chunks' = {} /\ loaded_completed' = {}
         /\ ckpt' = <<CheckpointState(compute_epub_hash(Input), fp',
                                      total_chunks, <<>>)>>
         /\ idx' = 0 /\ processed_count' = 0
         /\ \A i \in ChunkIdx : infer_calls'[i] = 0

\* C12 (state): a run that reported INVALID reuses no chunk, finds no chunk
\* marked completed, and has run inference once for every chunk it is past.
C12_State ==
  HasInvalid =>
    /\ Reused = {} /\ MissingAudio = {}
    /\ InChunkLoop => \A i \in ChunkIdx : i < idx => infer_calls[i] = 1
    /\ pc \in {"returned", "done"} => \A i \in ChunkIdx : infer_calls[i] = 1

\* C12: a resume over a checkpoint that does not verify, or of another chunk
\* count, is not an error: the job reports INVALID and runs as a fresh job.
C12_InvalidCheckpointStartsFresh ==
  [][C12_RefusedStep]_vars /\ []C12_State

\* C12 witness: a resumed run over a checkpoint of this EPUB and config but
\* of another chunk count, with stale audio files on disk, that completed
C12_Witness ==
  /\ pc = "returned" /\ HasInvalid
  /\ events[1][4] = "chunk_mismatch"
  /\ present_at_start # {}
  /\ total_chunks = 2
  /\ \A i \in ChunkIdx : infer_calls[i] = 1


(***************************************************************************)
(* Job preparation: the policies of runtime.py, the options of cli.py      *)
(* parse_args and the checkpoint config of job.py.                         *)
(***************************************************************************)
LOW_MEMORY_APPLE_PYTORCH_CHUNK_CHARS == 400

DEFAULT_CHUNK_CHARS ==
  [b \in {"mlx", "pytorch"} |-> IF b = "mlx" THEN 900 ELSE 600]

\* is_apple_silicon_host(), is_low_memory_apple_host() (which the
\* environment can force on any host), and whether mlx imports and runs
Hosts == [apple_silicon : BOOLEAN, low_memory : BOOLEAN, mlx_usable : BOOLEAN]

resolve_backend(requested, h) ==
  IF requested # "auto" THEN requested
  ELSE IF h.apple_silicon /\ ~h.low_memory /\ h.mlx_usable THEN "mlx"
  ELSE "pytorch"

\* the device of resolve_device_for_args(args, resolved_backend)
resolve_device_for_args(a, resolved_backend, h) ==
  IF resolved_backend = "mlx" THEN "mlx"
  ELSE IF resolved_backend = "mock" THEN "cpu"
  ELSE IF a.device = "auto"
    THEN IF h.low_memory THEN "cpu"
         ELSE IF h.apple_silicon THEN "mps"
         ELSE "auto"
  ELSE a.device

default_chunk_chars_for_backend(resolved_backend, h) ==
  IF resolved_backend = "pytorch" /\ h.low_memory
    THEN LOW_MEMORY_APPLE_PYTORCH_CHUNK_CHARS
  ELSE IF resolved_backend \in DOMAIN DEFAULT_CHUNK_CHARS
    THEN DEFAULT_CHUNK_CHARS[resolved_backend]
  ELSE 600

\* job.py 96-100: the chunk size of the job
ResolvedChunkChars(a, resolved_backend, h) ==
  IF a.chunk_chars # <<>> THEN a.chunk_chars[1]
  ELSE default_chunk_chars_for_backend(resolved_backend, h)

\* mutation: the bitrate is left out of the config
build_checkpoint_config_without_bitrate(a, resolved_backend, chunk_chars, resolved_device) ==
  [voice |-> a.voice,
   speed |-> a.speed,
   lang_code |-> a.lang_code,
   backend |-> resolved_backend,
   device |-> IF resolved_backend = "pytorch" THEN resolved_device ELSE "auto",
   chunk_chars |-> chunk_chars,
   split_pattern |-> a.split_pattern,
   format |-> a.format,
   normalize |-> a.normalize]

build_checkpoint_config(a, resolved_backend, chunk_chars, resolved_device) ==
  [voice |-> a.voice,
   speed |-> a.speed,
   lang_code |-> a.lang_code,
   backend |-> resolved_backend,
   device |-> IF resolved_backend = "pytorch" THEN resolved_device ELSE "auto",
   chunk_chars |-> chunk_chars,
   split_pattern |-> a.split_pattern,
   format |-> a.format,
   bitrate |-> a.bitrate,
   normalize |-> a.normalize]

\* cli.py 397-402 and 458-463: the config of a job with these options
CheckpointConfig(a, h) ==
  LET resolved_backend == resolve_backend(a.backend, h)
  IN build_checkpoint_config(
       a, resolved_backend, ResolvedChunkChars(a, resolved_backend, h),
       resolve_device_for_args(a, resolved_backend, h))

\* the ten values the fingerprint is about, as the job uses them: the
\* options and the resolved backend, device and chunk size of the plan
FingerprintFields(a, h) ==
  LET resolved_backend == resolve_backend(a.backend, h)
  IN [voice |-> a.voice,
      speed |-> a.speed,
      lang_code |-> a.lang_code,
      backend |-> resolved_backend,
      device |-> resolve_device_for_args(a, resolved_backend, h),
      chunk_chars |-> ResolvedChunkChars(a, resolved_backend, h),
      split_pattern |-> a.split_pattern,
      format |-> a.format,
      bitrate |-> a.bitrate,
      normalize |-> a.normalize]

FingerprintOptions ==
  {"voice", "speed", "lang_code", "backend", "device", "chunk_chars",
   "split_pattern", "format", "bitrate", "normalize"}

\* parse_args: the defaults (speed in tenths, no chunk size given)
DefaultArgs ==
  [voice |-> "af_heart", speed |-> 10, lang_code |-> "a",
   backend |-> "auto", device |-> "auto", chunk_chars |-> <<>>,
   split_pattern |-> "newlines", format |-> "mp3", bitrate |-> "192k",
   normalize |-> FALSE, checkpoint |-> FALSE, resume |-> FALSE,
   pipeline_mode |-> "unset", prefetch_chunks |-> 2, pcm_queue_size |-> 4]

\* parse_args: values of each option
OptionValues ==
  [voice |-> {"af_heart", "af_bella"},
   speed |-> {10, 12},
   lang_code |-> {"a", "b"},
   backend |-> {"auto", "pytorch", "mlx", "mock"},
   device |-> {"auto", "cpu", "mps"},
   chunk_chars |-> {<<>>, <<600>>, <<900>>},
   split_pattern |-> {"newlines", "sentences"},
   format |-> {"mp3", "m4b"},
   bitrate |-> {"128k", "192k", "320k"},
   normalize |-> BOOLEAN]

\* the options of an earlier checkpointed run
PriorOptions ==
  {[DefaultArgs EXCEPT !.backend = b, !.device = dv, !.chunk_chars = cc,
                       !.format = fm, !.checkpoint = TRUE] :
     b \in OptionValues.backend, dv \in OptionValues.device,
     cc \in OptionValues.chunk_chars, fm \in OptionValues.format}

\* the same options with --resume, and those with one option changed
ResumeOptions(prior) ==
  LET again == [prior EXCEPT !.resume = TRUE]
  IN {again} \cup
     UNION {{[again EXCEPT ![k] = v] : v \in OptionValues[k]} :
              k \in FingerprintOptions}

\* cli.py 392-472: the resume decision and the set-up of the run
MainPrepare ==
  /\ pc = "idle"
  /\ RunSetup(args.checkpoint, args.resume, CheckpointConfig(args, host),
              args.format, <<>>)
  /\ pc' = "loop"
  /\ UNCHANGED <<jobVars, mp3_export_proc, ovVars>>

\* a resume attempt over the checkpoint of an earlier run of the same EPUB
\* that failed after k chunks, on the same host
InitCfg ==
  /\ \E n \in 1 .. MaxChunks : chunks = Document(n, 0)
  /\ deterministic = TRUE
  /\ host \in Hosts
  /\ prior_args \in PriorOptions
  /\ args \in ResumeOptions(prior_args)
  /\ \E k \in 0 .. total_chunks :
       /\ ckpt = <<CheckpointState(compute_epub_hash(Input),
                                   CheckpointConfig(prior_args, host),
                                   total_chunks, SortedSeq(0 .. (k - 1)))>>
       /\ artifacts = [i \in ChunkIdx |->
                         IF i < k
                           THEN <<I16(SamplesOf(Generate(ChunkText(i), 0)))>>
                           ELSE <<>>]
  /\ runs = 1
  /\ NoRun
  /\ pipeline_mode = "unset" /\ warnings = <<>>
  /\ SplitUnused

NextCfg == MainPrepare

SpecCfg == InitCfg /\ [][NextCfg]_vars

\* the fingerprint fields in which this run differs from the earlier one
ChangedFields ==
  {k \in FingerprintOptions :
     FingerprintFields(prior_args, host)[k] # FingerprintFields(args, host)[k]}

\* C13: when the resume attempt differs from the run that wrote the
\* checkpoint in exactly one fingerprint field, its checkpoint config
\* differs from the stored one, the checkpoint is reported INVALID for its
\* config, and the run starts with an empty completed set, so that no chunk
\* is a candidate for reuse.
C13_SingleFieldChange ==
  (pc = "loop" /\ Cardinality(ChangedFields) = 1) =>
    /\ fp # CheckpointConfig(prior_args, host)
    /\ HasInvalid /\ events[1][4] = "config_mismatch"
    /\ loaded_completed = {} /\ completed_chunks = {}
    /\ \A i \in ChunkIdx : ~(use_checkpoint /\ resume /\ i \in completed_chunks)
    /\ ckpt[1].config = fp /\ ckpt[1].completed_chunks = <<>>

\* C13 witness: only the device differs (cpu instead of the host's choice,
\* under the pytorch backend) and the old checkpoint had audio on disk
C13_Witness ==
  /\ pc = "loop"
  /\ ChangedFields = {"device"}
  /\ present_at_start # {}
  /\ HasInvalid
  /\ completed_chunks = {}


(***************************************************************************)
(* run_overlap3_pipeline (pipeline.py 188-332): the inference thread, the  *)
(* conversion thread and the controller, joined by two bounded queues.     *)
(***************************************************************************)
\* line 197
inference_queue_max == Max(2, prefetch_chunks * 2)

\* mutation: the capacity is padded instead of clamped
pcm_queue_max_padded == 2 + pcm_queue_size

\* line 198
pcm_queue_max == Max(2, pcm_queue_size)

NoPayload == [dtype |-> "none", data |-> <<>>]
\* infer_ms, a wall-clock reading
InferMs == [dtype |-> "ms", data |-> <<>>]
Msg(kind, i, payload) == <<kind, i, payload>>
EndMsg == Msg("end", -1, NoPayload)

\* the overlapped runner has no checkpoint and one voice
OvBuffers(i) == Generate(ChunkText(i), 0)

\* queue.Queue.put on a bounded queue blocks while the queue is full
CanPut(q, maxsize) == Len(q) < maxsize

\* mutation: the start marker carries the index of the following chunk
StartMsgNextIndex(i) == Msg("start", i + 1, NoPayload)

\* line 214
StartMsg(i) == Msg("start", i, NoPayload)

\* mutation: the conversion stage forwards the raw payload
ForwardUnconverted(m) == m

\* lines 236-238: what the conversion stage forwards for a message
Forwarded(m) ==
  IF m[1] = "audio" THEN Msg(m[1], m[2], audio_to_int16(m[3])) ELSE m

\* mutation: no look at the error channel after the end sentinel
FinalErrorIgnored == FALSE

\* line 321
FinalErrorPending == worker_errors # <<>>

\* ---- inference_worker (lines 211-228) ----
\* line 214: the start marker of the next chunk, backend.generate is called
InfPutStart ==
  /\ inf_pc = "start" /\ inf_idx < total_chunks
  /\ CanPut(inference_queue, inference_queue_max)
  /\ inference_queue' = Append(inference_queue, StartMsg(inf_idx))
  /\ inf_sent' = Append(inf_sent, StartMsg(inf_idx))
  /\ inf_pos' = 0
  /\ inf_pc' = "gen"
  /\ UNCHANGED <<inputVars, jobVars, mp3_export_proc, storeVars, mainVars, seqVars, sinkVars, obsVars,
                 prefetch_chunks, pcm_queue_size, pcm_queue, worker_errors,
                 inf_idx, cv_pc, cv_msg, chunk_started, timeouts, cv_sent, captured,
                 observed, muxed>>

\* lines 216-222: the backend yields a buffer and it is queued
InfPutAudio ==
  /\ inf_pc = "gen" /\ inf_pos < Len(OvBuffers(inf_idx))
  /\ CanPut(inference_queue, inference_queue_max)
  /\ LET m == Msg("audio", inf_idx, OvBuffers(inf_idx)[inf_pos + 1])
     IN /\ inference_queue' = Append(inference_queue, m)
        /\ inf_sent' = Append(inf_sent, m)
  /\ inf_pos' = inf_pos + 1
  /\ UNCHANGED <<inputVars, jobVars, mp3_export_proc, storeVars, mainVars, seqVars, sinkVars, obsVars,
                 prefetch_chunks, pcm_queue_size, pcm_queue, worker_errors,
                 inf_pc, inf_idx, cv_pc, cv_msg, chunk_started, timeouts, cv_sent,
                 captured, observed, muxed>>

\* lines 223-224: the generator is exhausted, the done marker is queued
InfPutDone ==
  /\ inf_pc = "gen" /\ inf_pos = Len(OvBuffers(inf_idx))
  /\ CanPut(inference_queue, inference_queue_max)
  /\ inference_queue' = Append(inference_queue, Msg("done", inf_idx, InferMs))
  /\ inf_sent' = Append(inf_sent, Msg("done", inf_idx, InferMs))
  /\ inf_idx' = inf_idx + 1
  /\ inf_pc' = "start"
  /\ UNCHANGED <<inputVars, jobVars, mp3_export_proc, storeVars, mainVars, seqVars, sinkVars, obsVars,
                 prefetch_chunks, pcm_queue_size, pcm_queue, worker_errors,
                 inf_pos, cv_pc, cv_msg, chunk_started, timeouts, cv_sent, captured,
                 observed, muxed>>

\* line 213: the for loop is over
InfLoopEnd ==
  /\ inf_pc = "start" /\ inf_idx = total_chunks
  /\ inf_pc' = "finally"
  /\ UNCHANGED <<inputVars, jobVars, mp3_export_proc, storeVars, mainVars, seqVars, sinkVars, obsVars,
                 prefetch_chunks, pcm_queue_size, inference_queue, pcm_queue,
                 worker_errors, inf_idx, inf_pos, cv_pc, cv_msg, chunk_started,
                 timeouts, inf_sent, cv_sent, captured, observed, muxed>>

\* mutation: the exception is captured but the finally block is missing
InfRaiseNoFinally ==
  /\ inf_pc = "gen"
  /\ worker_errors' = Append(worker_errors, "generate")
  /\ captured' = Append(captured, "generate")
  /\ inf_pc' = "exited"
  /\ UNCHANGED <<inputVars, jobVars, mp3_export_proc, storeVars, mainVars, seqVars, sinkVars, obsVars,
                 prefetch_chunks, pcm_queue_size, inference_queue, pcm_queue,
                 inf_idx, inf_pos, cv_pc, cv_msg, chunk_started, timeouts,
                 inf_sent, cv_sent, observed, muxed>>

\* lines 216, 225-226: backend.generate raises, the exception is captured
InfRaise ==
  /\ inf_pc = "gen"
  /\ worker_errors' = Append(worker_errors, "generate")
  /\ captured' = Append(captured, "generate")
  /\ inf_pc' = "finally"
  /\ UNCHANGED <<inputVars, jobVars, mp3_export_proc, storeVars, mainVars, seqVars, sinkVars, obsVars,
                 prefetch_chunks, pcm_queue_size, inference_queue, pcm_queue,
                 inf_idx, inf_pos, cv_pc, cv_msg, chunk_started, timeouts, inf_sent,
                 cv_sent, observed, muxed>>

\* lines 227-228: finally, the end sentinel
InfPutEnd ==
  /\ inf_pc = "finally"
  /\ CanPut(inference_queue, inference_queue_max)
  /\ inference_queue' = Append(inference_queue, EndMsg)
  /\ inf_sent' = Append(inf_sent, EndMsg)
  /\ inf_pc' = "exited"
  /\ UNCHANGED <<inputVars, jobVars, mp3_export_proc, storeVars, mainVars, seqVars, sinkVars, obsVars,
                 prefetch_chunks, pcm_queue_size, pcm_queue, worker_errors,
                 inf_idx, inf_pos, cv_pc, cv_msg, chunk_started, timeouts, cv_sent,
                 captured, observed, muxed>>

\* ---- convert_worker (lines 230-242) ----
\* mutation: the conversion stage writes the converted audio to the muxer
\* itself before it forwards the message
CvGetWriting ==
  /\ cv_pc = "get" /\ inference_queue # <<>>
  /\ LET m == Head(inference_queue)
     IN /\ inference_queue' = Tail(inference_queue)
        /\ mp3_stdin' = IF m[1] = "audio"
                          THEN mp3_stdin \o tobytes(Forwarded(m)[3].data)
                          ELSE mp3_stdin
        /\ IF m[1] = "end"
             THEN /\ cv_pc' = "finally"
                  /\ cv_msg' = <<>>
             ELSE /\ cv_pc' = "put"
                  /\ cv_msg' = <<Forwarded(m)>>
  /\ UNCHANGED <<inputVars, jobVars, mp3_export_proc, storeVars, mainVars, seqVars, spool, obsVars,
                 prefetch_chunks, pcm_queue_size, pcm_queue, worker_errors,
                 inf_pc, inf_idx, inf_pos, chunk_started, timeouts, inf_sent, cv_sent,
                 captured, observed, muxed>>

\* lines 233-237: take a message; an audio payload is converted
CvGet ==
  /\ cv_pc = "get" /\ inference_queue # <<>>
  /\ LET m == Head(inference_queue)
     IN /\ inference_queue' = Tail(inference_queue)
        /\ IF m[1] = "end"
             THEN /\ cv_pc' = "finally"
                  /\ cv_msg' = <<>>
             ELSE /\ cv_pc' = "put"
                  /\ cv_msg' = <<Forwarded(m)>>
  /\ UNCHANGED <<inputVars, jobVars, mp3_export_proc, storeVars, mainVars, seqVars, sinkVars, obsVars,
                 prefetch_chunks, pcm_queue_size, pcm_queue, worker_errors,
                 inf_pc, inf_idx, inf_pos, chunk_started, timeouts, inf_sent, cv_sent,
                 captured, observed, muxed>>

\* mutation: the conversion stage swallows its exception
CvRaiseUncaptured ==
  /\ cv_pc = "get" /\ inference_queue # <<>>
  /\ Head(inference_queue)[1] = "audio"
  /\ inference_queue' = Tail(inference_queue)
  /\ cv_pc' = "finally"
  /\ UNCHANGED <<inputVars, jobVars, mp3_export_proc, storeVars, mainVars, seqVars, sinkVars, obsVars,
                 prefetch_chunks, pcm_queue_size, pcm_queue, inf_pc, inf_idx,
                 inf_pos, cv_msg, chunk_started, timeouts, inf_sent, cv_sent, observed,
                 muxed, worker_errors, captured>>

\* lines 237, 239-240: audio_to_int16 raises, the exception is captured
CvRaise ==
  /\ cv_pc = "get" /\ inference_queue # <<>>
  /\ Head(inference_queue)[1] = "audio"
  /\ inference_queue' = Tail(inference_queue)
  /\ worker_errors' = Append(worker_errors, "convert")
  /\ captured' = Append(captured, "convert")
  /\ cv_pc' = "finally"
  /\ UNCHANGED <<inputVars, jobVars, mp3_export_proc, storeVars, mainVars, seqVars, sinkVars, obsVars,
                 prefetch_chunks, pcm_queue_size, pcm_queue, inf_pc, inf_idx,
                 inf_pos, cv_msg, chunk_started, timeouts, inf_sent, cv_sent, observed,
                 muxed>>

\* mutation: the message is forwarded twice
CvPutTwice ==
  /\ cv_pc = "put"
  /\ CanPut(pcm_queue, pcm_queue_max)
  /\ pcm_queue' = pcm_queue \o <<cv_msg[1], cv_msg[1]>>
  /\ cv_sent' = cv_sent \o <<cv_msg[1], cv_msg[1]>>
  /\ cv_msg' = <<>>
  /\ cv_pc' = "get"
  /\ UNCHANGED <<inputVars, jobVars, mp3_export_proc, storeVars, mainVars, seqVars, sinkVars, obsVars,
                 prefetch_chunks, pcm_queue_size, inference_queue,
                 worker_errors, inf_pc, inf_idx, inf_pos, chunk_started,
                 timeouts, inf_sent, captured, observed, muxed>>

\* line 238: forward the message
CvPut ==
  /\ cv_pc = "put"
  /\ CanPut(pcm_queue, pcm_queue_max)
  /\ pcm_queue' = Append(pcm_queue, cv_msg[1])
  /\ cv_sent' = Append(cv_sent, cv_msg[1])
  /\ cv_msg' = <<>>
  /\ cv_pc' = "get"
  /\ UNCHANGED <<inputVars, jobVars, mp3_export_proc, storeVars, mainVars, seqVars, sinkVars, obsVars,
                 prefetch_chunks, pcm_queue_size, inference_queue,
                 worker_errors, inf_pc, inf_idx, inf_pos, chunk_started,
                 timeouts, inf_sent, captured, observed, muxed>>

\* mutation: the conversion stage exits without its sentinel
CvExitSilently ==
  /\ cv_pc = "finally"
  /\ cv_pc' = "exited"
  /\ UNCHANGED <<inputVars, jobVars, mp3_export_proc, storeVars, mainVars, seqVars, sinkVars, obsVars,
                 prefetch_chunks, pcm_queue_size, inference_queue, pcm_queue,
                 worker_errors, inf_pc, inf_idx, inf_pos, cv_msg,
                 chunk_started, timeouts, inf_sent, cv_sent, captured,
                 observed, muxed>>

\* lines 241-242: finally, the end sentinel
CvPutEnd ==
  /\ cv_pc = "finally"
  /\ CanPut(pcm_queue, pcm_queue_max)
  /\ pcm_queue' = Append(pcm_queue, EndMsg)
  /\ cv_sent' = Append(cv_sent, EndMsg)
  /\ cv_pc' = "exited"
  /\ UNCHANGED <<inputVars, jobVars, mp3_export_proc, storeVars, mainVars, seqVars, sinkVars, obsVars,
                 prefetch_chunks, pcm_queue_size, inference_queue,
                 worker_errors, inf_pc, inf_idx, inf_pos, cv_msg,
                 chunk_started, timeouts, inf_sent, captured, observed, muxed>>


\* ---- the controller (lines 253-332) ----
ovMainRest == <<runs, deletes, chain, fp, use_checkpoint, resume,
                use_mp3_stream, loaded_completed, present_at_start>>
ovSeqRest == <<idx, completed_chunks, checkpoint_state, checkpoint_parts,
               gen_pos, rendition>>
stageVars == <<prefetch_chunks, pcm_queue_size, inference_queue, inf_pc,
               inf_idx, inf_pos, cv_pc, cv_msg, inf_sent, cv_sent, captured>>

\* lines 257-258: a captured stage error is raised at the top of the loop
CtlCheckErrors ==
  /\ pc = "check"
  /\ IF worker_errors # <<>>
       THEN /\ error' = Head(worker_errors)
            /\ worker_errors' = Tail(worker_errors)
            /\ pc' = "raised"
       ELSE /\ pc' = "get"
            /\ UNCHANGED <<error, worker_errors>>
  /\ UNCHANGED <<inputVars, jobVars, mp3_export_proc, storeVars, ovMainRest, seqVars, sinkVars, obsVars,
                 stageVars, pcm_queue, chunk_started, timeouts, observed,
                 muxed>>

\* lines 261-264: nothing arrived within the timeout; heartbeat check
CtlTimeout ==
  /\ pc = "get"
  /\ pcm_queue = <<>>
  /\ pc' = "check"
  /\ timeouts' = IF timeouts < MaxTimeouts THEN timeouts + 1 ELSE timeouts
  /\ UNCHANGED <<inputVars, jobVars, mp3_export_proc, storeVars, ovMainRest, error, seqVars, sinkVars,
                 obsVars, stageVars, pcm_queue, worker_errors, chunk_started,
                 observed, muxed>>

\* lines 261, 266-319: a message is taken and handled by kind
CtlGet ==
  /\ pc = "get"
  /\ pcm_queue # <<>>
  /\ LET m == Head(pcm_queue)
         kind == m[1]
         i == m[2]
         valid == kind # "end" /\ i >= 0 /\ i < total_chunks
         mark == valid /\ (kind = "start" \/ (kind = "audio" /\ ~chunk_started[i]))
     IN
     /\ pcm_queue' = Tail(pcm_queue)
     /\ observed' = Append(observed, m)
     /\ pc' = IF kind = "end" THEN "final"
              ELSE IF valid /\ kind \in {"start", "audio", "done"} THEN "check"
              ELSE "raised"
     /\ error' = IF kind = "end" THEN error
                 ELSE IF ~valid THEN "invalid_index"
                 ELSE IF kind \in {"start", "audio", "done"} THEN error
                 ELSE "unknown_kind"
     /\ chunk_sample_offsets' =
          IF mark THEN [chunk_sample_offsets EXCEPT ![i] = cumulative_samples]
          ELSE chunk_sample_offsets
     /\ chunk_started' =
          IF mark THEN [chunk_started EXCEPT ![i] = TRUE] ELSE chunk_started
     /\ IF valid /\ kind = "audio"
          THEN /\ mp3_stdin' = mp3_stdin \o tobytes(m[3].data)
               /\ cumulative_samples' = cumulative_samples + Len(m[3].data)
               /\ muxed' = Append(muxed, <<i, m[3]>>)
          ELSE UNCHANGED <<mp3_stdin, cumulative_samples, muxed>>
     /\ IF valid /\ kind = "done"
          THEN /\ times' = Append(times, i)
               /\ processed_count' = processed_count + 1
          ELSE UNCHANGED <<times, processed_count>>
     /\ events' =
          IF valid /\ kind = "start"
            THEN Append(events, Event("worker", "INFER", i, "Chunk"))
          ELSE IF valid /\ kind = "done"
            THEN events \o <<Event("worker", "ENCODE", i, "Chunk"),
                             Event("timing", "infer", i, ""),
                             Event("progress", "", processed_count + 1, "")>>
          ELSE events
  /\ UNCHANGED <<inputVars, jobVars, mp3_export_proc, storeVars, ovMainRest, ovSeqRest, spool,
                 infer_calls, yielded, stageVars, worker_errors, timeouts>>

\* lines 321-332: after the end sentinel: raise a captured error, else join
\* the threads (bounded wait) and return the result
CtlFinish ==
  /\ pc = "final"
  /\ IF FinalErrorPending
       THEN /\ error' = Head(worker_errors)
            /\ worker_errors' = Tail(worker_errors)
            /\ pc' = "raised"
       ELSE /\ pc' = "returned"
            /\ UNCHANGED <<error, worker_errors>>
  /\ UNCHANGED <<inputVars, jobVars, mp3_export_proc, storeVars, ovMainRest, seqVars, sinkVars, obsVars,
                 stageVars, pcm_queue, chunk_started, timeouts, observed,
                 muxed>>

(***************************************************************************)
(* One overlapped run: both threads started, the controller in its loop.   *)
(***************************************************************************)
InitOv ==
  /\ \/ /\ \E n \in 1 .. OvMaxChunks : \E shift \in Texts :
              chunks = Document(n, shift)
        /\ prefetch_chunks \in 1 .. MaxPrefetch
        /\ pcm_queue_size \in 1 .. MaxPcmQueueSize
     \/ /\ chunks = OrderingScenario
        /\ prefetch_chunks = 1
        /\ pcm_queue_size \in 1 .. 2
  /\ deterministic = TRUE
  /\ ckpt = <<>>
  /\ artifacts = [i \in ChunkIdx |-> <<>>]
  /\ runs = 1 /\ deletes = 0 /\ chain = 0
  /\ pc = "check"
  /\ error = "none"
  /\ fp = 1
  /\ use_checkpoint = FALSE /\ resume = FALSE /\ use_mp3_stream = TRUE
  /\ loaded_completed = {} /\ present_at_start = {}
  /\ idx = 0 /\ completed_chunks = {} /\ checkpoint_state = <<>>
  /\ cumulative_samples = 0
  /\ chunk_sample_offsets = [i \in ChunkIdx |-> 0]
  /\ times = <<>>
  /\ processed_count = 0
  /\ checkpoint_parts = [active |-> FALSE, parts |-> <<>>]
  /\ gen_pos = 0 /\ rendition = 0
  /\ mp3_stdin = <<>> /\ spool = <<>>
  /\ events = <<>>
  /\ infer_calls = [i \in ChunkIdx |-> 0]
  /\ yielded = [i \in ChunkIdx |-> <<>>]
  /\ inference_queue = <<>> /\ pcm_queue = <<>> /\ worker_errors = <<>>
  /\ inf_pc = "start" /\ inf_idx = 0 /\ inf_pos = 0
  /\ cv_pc = "get" /\ cv_msg = <<>>
  /\ chunk_started = [i \in ChunkIdx |-> FALSE]
  /\ timeouts = 0
  /\ inf_sent = <<>> /\ cv_sent = <<>> /\ captured = <<>>
  /\ observed = <<>> /\ muxed = <<>>
  /\ JobUnused
  /\ NoResources

InferenceStep == InfPutStart \/ InfPutAudio \/ InfPutDone \/ InfLoopEnd \/ InfPutEnd
ConvertStep == CvGet \/ CvPut \/ CvPutEnd
ControllerStep == CtlCheckErrors \/ CtlTimeout \/ CtlGet \/ CtlFinish

NextOv ==
  \/ InfPutStart
  \/ InfPutAudio
  \/ InfPutDone
  \/ InfLoopEnd
  \/ InfRaise
  \/ InfPutEnd
  \/ CvGet
  \/ CvRaise
  \/ CvPut
  \/ CvPutEnd
  \/ CtlCheckErrors
  \/ CtlTimeout
  \/ CtlGet
  \/ CtlFinish

SpecOv == InitOv /\ [][NextOv]_vars

\* every runnable thread is scheduled again and again; a stage raises or not
FairOv ==
  /\ SpecOv
  /\ WF_vars(InferenceStep)
  /\ WF_vars(ConvertStep)
  /\ WF_vars(ControllerStep)


(***************************************************************************)
(* Properties of the overlapped runner.                                    *)
(***************************************************************************)
IsAudio(m) == m[1] = "audio"
IsStart(m) == m[1] = "start"
IsEnd(m) == m[1] = "end"
NotEnd(m) == m[1] # "end"

\* the audio buffers the backend has yielded to the inference stage so far
BackendYields == SelectSeq(inf_sent, IsAudio)

\* every buffer of every chunk, chunks in index order, buffers in yield order
AllBackendYields ==
  Flatten([k \in 1 .. total_chunks |->
             [j \in 1 .. Len(OvBuffers(k - 1)) |->
                Msg("audio", k - 1, OvBuffers(k - 1)[j])]])

\* C5: when an overlapped run has returned a result, the buffers the
\* controller wrote to the muxer input are, one for one and in the same
\* order, the (converted) buffers the backend yielded: every chunk in index
\* order and every buffer of a chunk in yield order.
C5_MuxedEqualsYielded ==
  pc = "returned" =>
    /\ BackendYields = AllBackendYields
    /\ muxed = [k \in 1 .. Len(BackendYields) |->
                  <<BackendYields[k][2], audio_to_int16(BackendYields[k][3])>>]
    /\ mp3_stdin = tobytes(Flatten([k \in 1 .. Len(muxed) |-> muxed[k][2].data]))

\* C5 witness: a returned run over two chunks that muxed buffers of two
\* different chunks through queues of capacity two
C5_Witness ==
  /\ pc = "returned"
  /\ total_chunks = 2
  /\ prefetch_chunks = 1 /\ pcm_queue_size = 1
  /\ Len(muxed) = 3
  /\ muxed[1][1] # muxed[3][1]

\* chunk indices of the start messages the controller has observed
ObservedStarts ==
  LET st == SelectSeq(observed, IsStart) IN [k \in 1 .. Len(st) |-> st[k][2]]

\* C6: the start messages the controller observes carry 0, 1, 2, ... in that
\* order without duplicate or gap, and all of 0..N-1 once the run has
\* returned a result.
C6_StartsInOrder ==
  /\ ObservedStarts = [k \in 1 .. Len(ObservedStarts) |-> k - 1]
  /\ Len(ObservedStarts) <= total_chunks
  /\ pc = "returned" => Len(ObservedStarts) = total_chunks

\* C6 witness: ten chunks through queues of capacity two, all ten starts
\* observed
C6_Witness ==
  /\ pc = "returned"
  /\ total_chunks = 10
  /\ inference_queue_max = 2 /\ pcm_queue_max = 2
  /\ ObservedStarts = <<0, 1, 2, 3, 4, 5, 6, 7, 8, 9>>

\* C7: once a stage has captured an exception the controller eventually
\* raises the first captured exception, and a run in which a stage raised
\* never returns a result.
C7_StageErrorRaised ==
  /\ (captured # <<>>) ~> (pc = "raised" /\ error = captured[1])
  /\ [](pc = "returned" => captured = <<>>)

\* C7 witness: the conversion stage failed first, the inference stage failed
\* later with audio of its chunk already queued and is blocked on the full
\* inference queue with its sentinel, and the controller has raised the
\* conversion error
C7_Witness ==
  /\ pc = "raised" /\ error = "convert"
  /\ captured = <<"convert", "generate">>
  /\ inf_pc = "finally" /\ inf_pos >= 1
  /\ Len(inference_queue) = inference_queue_max

\* C8: unless a stage raises, the overlapped run terminates: the controller
\* receives the end sentinel and returns a result after N done markers, one
\* recorded timing per chunk.
C8_Terminates ==
  <>(\/ captured # <<>>
     \/ /\ pc = "returned"
        /\ observed # <<>> /\ IsEnd(observed[Len(observed)])
        /\ processed_count = total_chunks
        /\ times = [k \in 1 .. total_chunks |-> k - 1])

\* C8 witness: a returned run of two chunks with the larger capacities,
\* two timings, after the controller timed out on an empty queue
C8_Witness ==
  /\ pc = "returned"
  /\ captured = <<>>
  /\ total_chunks = 2 /\ Len(times) = 2
  /\ inference_queue_max = 4 /\ pcm_queue_max = 3
  /\ timeouts >= 1

EndCount(sent) == Len(SelectSeq(sent, IsEnd))

EndIsLast(sent) ==
  \A k \in 1 .. Len(sent) : IsEnd(sent[k]) => k = Len(sent)

\* C9: a stage that has exited has put its end sentinel, whether it finished
\* its work or captured an exception; a stage puts the sentinel at most once
\* and puts nothing after it.
C9_EndSentinel ==
  /\ EndCount(inf_sent) <= 1 /\ EndIsLast(inf_sent)
  /\ EndCount(cv_sent) <= 1 /\ EndIsLast(cv_sent)
  /\ inf_pc = "exited" <=> EndCount(inf_sent) = 1
  /\ cv_pc = "exited" <=> EndCount(cv_sent) = 1
  /\ inf_pc = "exited" =>
       (inf_idx = total_chunks \/ "generate" \in SeqToSet(captured))
  /\ cv_pc = "exited" =>
       (EndCount(inf_sent) = 1 \/ "convert" \in SeqToSet(captured))

\* C9 witness: both stages captured an exception and both have put their
\* sentinel
C9_Witness ==
  /\ inf_pc = "exited" /\ cv_pc = "exited"
  /\ SeqToSet(captured) = {"generate", "convert"}
  /\ inf_idx < total_chunks

\* messages the inference stage has put and the controller has not taken
InFlight == Len(inf_sent) - Len(SelectSeq(observed, NotEnd))

\* C10 (state): the queues never hold more than their capacity, and at most
\* the two capacities plus one message are between inference and controller.
C10_Bounded ==
  /\ Len(inference_queue) <= Max(2, 2 * prefetch_chunks)
  /\ Len(pcm_queue) <= Max(2, pcm_queue_size)
  /\ InFlight <= Max(2, 2 * prefetch_chunks) + Max(2, pcm_queue_size) + 1

\* C10 (step): a stage whose output queue is full puts nothing.
C10_FullBlocks ==
  /\ Len(inference_queue) = Max(2, 2 * prefetch_chunks) => inf_sent' = inf_sent
  /\ Len(pcm_queue) = Max(2, pcm_queue_size) => cv_sent' = cv_sent

\* C10: backpressure bounds both queues and everything in flight.
C10_Backpressure == []C10_Bounded /\ [][C10_FullBlocks]_vars

\* C10 witness: both queues full, one message in the conversion stage's hand
C10_Witness ==
  /\ Len(inference_queue) = 4 /\ prefetch_chunks = 2
  /\ Len(pcm_queue) = 3 /\ pcm_queue_size = 3
  /\ cv_msg # <<>>
  /\ InFlight = 8


(***************************************************************************)
(* main() as a whole (cli.py 350-667) over the plan of prepare_job: the    *)
(* pipeline mode, the resources, one of the two runners, the export and    *)
(* the cleanup on the way out.                                             *)
(***************************************************************************)
\* runtime.py 114-116
default_pipeline_mode(output_format, use_cp) == "sequential"

\* mutation: checkpointing does not rule out overlap3
resolve_pipeline_mode_for_args_by_format(a, use_cp) ==
  LET requested == IF a.pipeline_mode # "unset" THEN a.pipeline_mode
                   ELSE default_pipeline_mode(a.format, use_cp)
      coerced == requested = "overlap3" /\ a.format # "mp3"
  IN [pipeline_mode |-> IF coerced THEN "sequential" ELSE requested,
      warnings |-> IF coerced THEN <<"overlap3 falls back to sequential">>
                   ELSE <<>>]

\* runtime.py 159-175
resolve_pipeline_mode_for_args(a, use_cp) ==
  LET requested == IF a.pipeline_mode # "unset" THEN a.pipeline_mode
                   ELSE default_pipeline_mode(a.format, use_cp)
      coerced == requested = "overlap3" /\ (a.format # "mp3" \/ use_cp)
  IN [pipeline_mode |-> IF coerced THEN "sequential" ELSE requested,
      warnings |-> IF coerced THEN <<"overlap3 falls back to sequential">>
                   ELSE <<>>]

\* the command lines of the jobs: mode, format and the checkpoint flags
MainArgs ==
  {[DefaultArgs EXCEPT !.pipeline_mode = pm, !.format = fm,
                       !.checkpoint = ck, !.resume = rs,
                       !.prefetch_chunks = pf, !.pcm_queue_size = pq] :
     pm \in {"unset", "sequential", "overlap3"},
     fm \in OptionValues.format, ck \in BOOLEAN, rs \in BOOLEAN,
     pf \in 0 .. 1, pq \in 0 .. 1}

\* mutation: the size of the PCM queue is not checked
PreconditionErrorNoPcm(a) ==
  IF a.prefetch_chunks < 1 THEN "prefetch_chunks"
  ELSE IF chunks = <<>> THEN "no_chunks"
  ELSE "none"

\* cli.py 309-312 and job.py 120-121: the checks made before main() sets
\* anything up, in the order they are made; "none" if all pass
PreconditionError(a) ==
  IF a.prefetch_chunks < 1 THEN "prefetch_chunks"
  ELSE IF a.pcm_queue_size < 1 THEN "pcm_queue_size"
  ELSE IF chunks = <<>> THEN "no_chunks"
  ELSE "none"

\* the precondition errors raised by main() itself, before prepare_job
OptionErrors == {"prefetch_chunks", "pcm_queue_size"}

\* the config of a job with these options, among the two of the model
FingerprintOf(a) == IF a.format = "mp3" THEN 1 ELSE 2

\* job.py 93-104, cli.py 392-472 and 497-561: the plan, the resume
\* decision, the backend, the sink, the persisted checkpoint state, and the
\* runner of the resolved mode is entered
JobStart(a) ==
  LET use_cp == a.checkpoint \/ a.resume
      plan == resolve_pipeline_mode_for_args(a, use_cp)
  IN
  /\ pc = "idle"
  /\ PreconditionError(a) = "none"
  /\ args' = a
  /\ pipeline_mode' = plan.pipeline_mode
  /\ warnings' = plan.warnings
  /\ prefetch_chunks' = a.prefetch_chunks
  /\ pcm_queue_size' = a.pcm_queue_size
  /\ RunSetup(a.checkpoint, a.resume, FingerprintOf(a), a.format,
              ParsingPhase)
  /\ backend' = "ready"
  /\ mp3_export_proc' = IF use_mp3_stream' THEN "open" ELSE "none"
  /\ spool_path' = IF use_mp3_stream' THEN "none" ELSE "file"
  /\ pc' = IF plan.pipeline_mode = "overlap3" THEN "check" ELSE "loop"
  /\ inf_pc' = IF plan.pipeline_mode = "overlap3" THEN "start" ELSE inf_pc
  /\ cv_pc' = IF plan.pipeline_mode = "overlap3" THEN "get" ELSE cv_pc
  /\ UNCHANGED <<splitVars, processVars, host, prior_args, cleanup_calls, cleanup_error,
                 propagated, inference_queue, pcm_queue,
                 worker_errors, inf_idx, inf_pos, cv_msg, chunk_started,
                 timeouts, inf_sent, cv_sent, captured, observed, muxed>>

\* what escapes main() without being an Exception (cli.py 660): the user's
\* interrupt
Interrupts == {"keyboard_interrupt"}

\* the places where the set-up of the job body can raise; the interrupt
\* arrives while the sink is being opened
SetupStages == {"create_backend", "open_sink", "save_checkpoint"} \cup Interrupts

\* mutation: the handler reports nothing
ErrorEventsNone(e) == <<>>

\* cli.py 659-662: the handler reports an Exception and nothing else
ErrorEvents(e) ==
  IF e # "none" /\ e \notin Interrupts THEN <<Event("error", "", 0, e)>>
  ELSE <<>>

\* cli.py 659-667: the error, if any, is reported and propagates; the
\* emitter is closed
LeaveMain(evs, e) ==
  /\ events' = evs \o ErrorEvents(e)
  /\ closes' = closes + 1
  /\ propagated' = e

\* cli.py 421-472: the set-up raises; what was acquired before stays
JobStartRaise(a, stage) ==
  LET use_cp == a.checkpoint \/ a.resume
      plan == resolve_pipeline_mode_for_args(a, use_cp)
      f == FingerprintOf(a)
      stream == UseMp3Stream(a.format, use_cp)
      sink_open == stage = "save_checkpoint"
  IN
  /\ pc = "idle"
  /\ PreconditionError(a) = "none"
  /\ stage = "save_checkpoint" => use_cp
  /\ args' = a
  /\ pipeline_mode' = plan.pipeline_mode
  /\ warnings' = plan.warnings
  /\ runs' = runs + 1
  /\ fp' = f
  /\ use_checkpoint' = use_cp
  /\ resume' = a.resume
  /\ loaded_completed' = LoadedCompleted(use_cp, a.resume, f)
  /\ completed_chunks' = LoadedCompleted(use_cp, a.resume, f)
  /\ present_at_start' = {i \in ChunkIdx : artifacts[i] # <<>>}
  /\ events' = ParsingPhase \o ResumeEvents(use_cp, a.resume, f)
  /\ backend' = IF stage = "create_backend" THEN "none" ELSE "ready"
  /\ use_mp3_stream' = IF stage = "create_backend" THEN use_mp3_stream
                        ELSE stream
  /\ mp3_export_proc' = IF sink_open /\ stream THEN "open" ELSE "none"
  /\ spool_path' = IF sink_open /\ ~stream THEN "file" ELSE "none"
  /\ checkpoint_state' = IF sink_open THEN <<StartState(use_cp, a.resume, f)>>
                          ELSE <<>>
  /\ Raise(stage)
  /\ UNCHANGED <<inputVars, storeVars, splitVars, processVars, host, prior_args, cleanup_calls,
                 cleanup_error, propagated, deletes, chain, idx,
                 cumulative_samples, chunk_sample_offsets, times,
                 processed_count, checkpoint_parts, gen_pos, rendition,
                 sinkVars, infer_calls, yielded, ovVars>>

\* cli.py 309-312, 363-377 and job.py 93-121: a precondition fails; the
\* option checks come before prepare_job, the chunk check is made by
\* prepare_job after it has resolved the plan; the error leaves main()
JobReject(a) ==
  LET plan == resolve_pipeline_mode_for_args(a, a.checkpoint \/ a.resume)
      failed == PreconditionError(a)
  IN
  /\ pc = "idle"
  /\ failed # "none"
  /\ args' = a
  /\ pipeline_mode' = IF failed \in OptionErrors THEN pipeline_mode
                       ELSE plan.pipeline_mode
  /\ warnings' = IF failed \in OptionErrors THEN warnings ELSE plan.warnings
  /\ error' = failed
  /\ LeaveMain(IF failed \in OptionErrors THEN events
               ELSE events \o ParsingPhase, failed)
  /\ pc' = "rejected"
  /\ UNCHANGED <<inputVars, storeVars, runs, deletes, chain, fp, use_checkpoint,
                 resume, use_mp3_stream, loaded_completed, present_at_start,
                 seqVars, sinkVars, infer_calls, yielded, ovVars, splitVars,
                 chapter_infos, beatVars, joinVars, resolveVars,
                 host, prior_args, backend, mp3_export_proc, spool_path,
                 cleanup_calls, cleanup_error>>

\* cli.py 636-639: the job body is left, with or without an error
JobBodyExited == pc \in {"failed", "raised", "done"}

\* cli.py 643-655: only the first cleanup error is kept
KeepFirst(e) == IF cleanup_error = <<>> THEN <<e>> ELSE cleanup_error

\* one of the calls of cli.py 642-654: the function returns its error, if
\* any; with nothing to clean up it returns none
CleanupCall(position, name, held, failed) ==
  /\ JobBodyExited
  /\ Len(cleanup_calls) = position
  /\ failed => held
  /\ cleanup_calls' =
       Append(cleanup_calls, <<name, IF failed THEN "failed" ELSE "ok">>)
  /\ cleanup_error' = IF failed THEN KeepFirst(name) ELSE cleanup_error

mainRest == <<inputVars, storeVars, mainVars, seqVars, sinkVars, obsVars, ovVars,
              splitVars, processVars, host, prior_args, args, pipeline_mode, warnings>>

\* cleanup.py 8-16, cli.py 642-644
cleanup_backend(failed) ==
  /\ CleanupCall(0, "cleanup_backend", backend # "none", failed)
  /\ backend' = IF backend = "none" \/ failed THEN backend ELSE "released"
  /\ UNCHANGED <<mainRest, mp3_export_proc, spool_path, propagated>>

\* mutation: the error of the muxer cleanup is raised instead of returned
cleanup_ffmpeg_process_raising(failed) ==
  /\ CleanupCall(1, "cleanup_ffmpeg_process", mp3_export_proc # "none", failed)
  /\ mp3_export_proc' =
       IF mp3_export_proc = "none" \/ failed THEN mp3_export_proc ELSE "closed"
  /\ IF failed
       THEN /\ pc' = "exited"
            /\ propagated' = "cleanup_ffmpeg_process"
            /\ UNCHANGED <<inputVars, storeVars, runs, deletes, chain, error, fp,
                           use_checkpoint, resume, use_mp3_stream,
                           loaded_completed, present_at_start, seqVars, sinkVars,
                           obsVars, ovVars, splitVars, processVars, host, prior_args, args,
                           pipeline_mode, warnings, backend, spool_path>>
       ELSE UNCHANGED <<mainRest, backend, spool_path, propagated>>

\* cleanup.py 19-41, cli.py 646-648
cleanup_ffmpeg_process(failed) ==
  /\ CleanupCall(1, "cleanup_ffmpeg_process", mp3_export_proc # "none", failed)
  /\ mp3_export_proc' =
       IF mp3_export_proc = "none" \/ failed THEN mp3_export_proc ELSE "closed"
  /\ UNCHANGED <<mainRest, backend, spool_path, propagated>>

\* cleanup.py 44-56, cli.py 650-652
cleanup_spool_path(failed) ==
  /\ CleanupCall(2, "cleanup_spool_path", spool_path # "none", failed)
  /\ spool_path' = IF spool_path = "none" \/ failed THEN spool_path ELSE "removed"
  /\ UNCHANGED <<mainRest, backend, mp3_export_proc, propagated>>

\* mutation: a cleanup error takes precedence over the error of the job
PropagatedCleanupFirst ==
  IF cleanup_error # <<>> THEN cleanup_error[1] ELSE error

\* cli.py 636-638 and 657-658: the error of the job body is re-raised; if
\* there is none, the first cleanup error is raised
PropagatedError ==
  IF error # "none" THEN error
  ELSE IF cleanup_error # <<>> THEN cleanup_error[1]
  ELSE "none"

\* cli.py 657-667: main() is left
MainExit ==
  /\ JobBodyExited
  /\ Len(cleanup_calls) = 3
  /\ LeaveMain(events, PropagatedError)
  /\ pc' = "exited"
  /\ UNCHANGED <<inputVars, storeVars, runs, deletes, chain, error, fp,
                 use_checkpoint, resume, use_mp3_stream, loaded_completed,
                 present_at_start, seqVars, sinkVars, infer_calls, yielded,
                 ovVars, splitVars, chapter_infos, beatVars, joinVars,
                 resolveVars, host,
                 prior_args, args, pipeline_mode, warnings, backend,
                 mp3_export_proc, spool_path, cleanup_calls, cleanup_error>>

\* the checkpoint directory at the start: empty, or what an earlier
\* checkpointed run of this job left after k chunks, one audio file
\* possibly lost since
InitMain ==
  /\ \E n \in 0 .. MaxChunks : chunks = Document(n, 0)
  /\ deterministic = TRUE
  /\ \/ /\ ckpt = <<>>
        /\ artifacts = [i \in ChunkIdx |-> <<>>]
     \/ \E f \in Fingerprints : \E k \in 1 .. total_chunks :
          \E lost \in BOOLEAN :
            /\ ckpt = PriorCheckpoint(Input, f, total_chunks, k)
            /\ artifacts = [PriorArtifacts(Input, f, k) EXCEPT
                              ![0] = IF lost THEN <<>> ELSE @]
  /\ runs = 0
  /\ NoRun
  /\ JobUnused

RunnerStep ==
  \/ SeqReuseChunk
  \/ SeqReuseWriteRaise
  \/ SeqMissingAudio
  \/ SeqMissingSaveRaise
  \/ SeqInferChunk
  \/ SeqInferBuffer
  \/ SeqWriteRaise
  \/ SeqGenerateRaise
  \/ SeqFinishChunk
  \/ SeqSaveChunkAudioRaise
  \/ SeqSaveCheckpointRaise
  \/ SeqReturn
  \/ NextOv

NextMain ==
  \/ \E a \in MainArgs : JobStart(a)
  \/ \E a \in MainArgs : \E stage \in SetupStages : JobStartRaise(a, stage)
  \/ \E a \in MainArgs : JobReject(a)
  \/ RunnerStep
  \/ MainExportDone
  \/ MainExportRaise
  \/ \E failed \in BOOLEAN : cleanup_backend(failed)
  \/ \E failed \in BOOLEAN : cleanup_ffmpeg_process(failed)
  \/ \E failed \in BOOLEAN : cleanup_spool_path(failed)
  \/ MainExit

SpecMain == InitMain /\ [][NextMain]_vars

\* the job was prepared: its options and its plan are known
Prepared == args # <<>> /\ error \notin OptionErrors

Checkpointing == args.checkpoint \/ args.resume

\* C14: the resolved pipeline mode is overlap3 exactly when overlap3 was
\* requested explicitly, the format is mp3 and neither the checkpoint nor
\* the resume flag is set, and sequential in every other case; a warning is
\* recorded exactly when a requested overlap3 was coerced to sequential; an
\* unspecified mode resolves to sequential without a warning.
C14_PipelineModeResolution ==
  Prepared =>
    /\ pipeline_mode \in {"sequential", "overlap3"}
    /\ pipeline_mode = "overlap3" <=>
         (args.pipeline_mode = "overlap3" /\ args.format = "mp3"
            /\ ~Checkpointing)
    /\ warnings # <<>> <=>
         (args.pipeline_mode = "overlap3" /\ pipeline_mode = "sequential")
    /\ args.pipeline_mode = "unset" =>
         (pipeline_mode = "sequential" /\ warnings = <<>>)

\* overlap3 was requested for a checkpointed mp3 job and coerced
C14_Witness ==
  /\ Prepared
  /\ args.pipeline_mode = "overlap3" /\ args.format = "mp3" /\ Checkpointing
  /\ pipeline_mode = "sequential" /\ warnings # <<>>
  /\ pc = "loop"

\* one of the two runners is executing
InSequentialRunner == pc \in {"loop", "infer"}

InOverlapRunner == pc \in {"check", "get", "final"}

InRunner == InSequentialRunner \/ InOverlapRunner

\* a runner step neither re-decides the sink nor touches the resources
C15_SinkKept ==
  InRunner =>
    /\ use_mp3_stream' = use_mp3_stream
    /\ mp3_export_proc' = mp3_export_proc
    /\ spool_path' = spool_path

C15_State ==
  /\ InRunner =>
       /\ use_mp3_stream <=> (args.format = "mp3" /\ ~Checkpointing)
       /\ use_mp3_stream =>
            (mp3_export_proc = "open" /\ spool_path = "none")
       /\ ~use_mp3_stream =>
            (spool_path = "file" /\ mp3_export_proc = "none")
       /\ use_checkpoint => spool_path = "file"
  /\ InOverlapRunner => (use_mp3_stream /\ mp3_export_proc = "open")
  /\ Prepared =>
       /\ use_mp3_stream => spool = <<>>
       /\ ~use_mp3_stream => mp3_stdin = <<>>

\* C15: for every job configuration exactly one sink is open while a runner
\* executes and it is never switched: the live muxer stream exactly when the
\* format is mp3 and checkpointing is off, otherwise the spool file; audio
\* only ever reaches that sink; a checkpointed run spools, and the
\* overlapped runner only runs with the live muxer stream.
C15_OneSinkForTheRun == [][C15_SinkKept]_vars /\ []C15_State

\* a checkpointed mp3 job has spooled the audio of its first chunk
C15_Witness ==
  /\ pc = "loop" /\ idx >= 1
  /\ args.format = "mp3" /\ use_checkpoint
  /\ spool_path = "file" /\ spool # <<>> /\ mp3_stdin = <<>>

\* cli.py 642-652: the cleanup functions in the order main() calls them
CleanupOrder ==
  <<"cleanup_backend", "cleanup_ffmpeg_process", "cleanup_spool_path">>

\* the names of the cleanup calls made so far
CleanupNames == [i \in 1 .. Len(cleanup_calls) |-> cleanup_calls[i][1]]

\* C16: on every exit of the job body, success or failure, the three
\* cleanup steps (backend, muxer process, spool file) are each attempted
\* exactly once and in that order, whether or not an earlier step failed:
\* cleanup only starts once the body is left, the calls made are always the
\* first ones of that order, and main() is only left after all three.
C16_CleanupDiscipline ==
  /\ Len(cleanup_calls) <= 3
  /\ CleanupNames = SubSeq(CleanupOrder, 1, Len(cleanup_calls))
  /\ cleanup_calls # <<>> => (JobBodyExited \/ pc = "exited")
  /\ pc = "exited" => Len(cleanup_calls) = 3

\* a failed job whose backend and muxer cleanups both failed still got to
\* the spool cleanup
C16_Witness ==
  /\ pc = "exited" /\ error # "none"
  /\ Len(cleanup_calls) = 3
  /\ cleanup_calls[1] = <<"cleanup_backend", "failed">>
  /\ cleanup_calls[2] = <<"cleanup_ffmpeg_process", "failed">>
  /\ cleanup_calls[3][1] = "cleanup_spool_path"

\* the cleanup steps that failed, by position in the order of the calls
FailedSteps == {i \in 1 .. Len(cleanup_calls) : cleanup_calls[i][2] = "failed"}

FirstFailedStep ==
  cleanup_calls[CHOOSE i \in FailedSteps : \A j \in FailedSteps : i <= j][1]

\* C17: when main() is left, the error that propagates is the error of the
\* job body if it failed, whatever the cleanup steps did; if the body
\* succeeded and some cleanup step failed it is the error of the first
\* failed step in the order backend, muxer, spool; otherwise there is none.
C17_ErrorPrecedence ==
  pc = "exited" =>
    /\ error # "none" => propagated = error
    /\ (error = "none" /\ FailedSteps # {}) => propagated = FirstFailedStep
    /\ (error = "none" /\ FailedSteps = {}) => propagated = "none"

\* the job succeeded, the backend and the spool cleanup failed, and the
\* backend's error is the one raised
C17_Witness ==
  /\ pc = "exited" /\ error = "none"
  /\ FailedSteps = {1, 3}
  /\ propagated = "cleanup_backend"

\* the positions in the event stream of the events of a type and code
EventPositions(type, code) ==
  {i \in 1 .. Len(events) : events[i][1] = type /\ events[i][2] = code}

CleanedEmitted == EventPositions("checkpoint", "CLEANED") # {}

\* the job body got through the export
Exported == pc = "done" \/ (pc = "exited" /\ error = "none")

StoreEmpty == ckpt = <<>> /\ \A i \in ChunkIdx : artifacts[i] = <<>>

\* the checkpoint record or an audio file of the store disappears
StoreLoss ==
  \/ ckpt # <<>> /\ ckpt' = <<>>
  \/ \E i \in ChunkIdx : artifacts[i] # <<>> /\ artifacts'[i] = <<>>

\* only the successful export of a checkpointed run deletes from the store
C18_DeletedOnlyOnSuccess ==
  StoreLoss => (pc = "returned" /\ pc' = "done" /\ use_checkpoint)

C18_State ==
  /\ Exported =>
       /\ CleanedEmitted <=> use_checkpoint
       /\ use_checkpoint => StoreEmpty
  /\ ~Exported => ~CleanedEmitted
  /\ CleanedEmitted =>
       /\ Cardinality(EventPositions("checkpoint", "CLEANED")) = 1
       /\ \A c \in EventPositions("checkpoint", "CLEANED") :
            /\ \E e \in EventPositions("phase", "EXPORTING") : e < c
            /\ \A e \in EventPositions("done", "") : c < e
            /\ EventPositions("done", "") # {}
  /\ (use_checkpoint /\ error # "none" /\ error \notin SetupStages) =>
       ckpt # <<>>

\* C18: the checkpoint is deleted and a CLEANED event emitted exactly when
\* checkpointing was requested for the run and the run got through the
\* export; the CLEANED event comes after the EXPORTING phase and before the
\* done event; no other step deletes the checkpoint record or a chunk audio
\* file, so after any failure up to and including the export the
\* checkpoint is still in place.
C18_CheckpointCleanup == [][C18_DeletedOnlyOnSuccess]_vars /\ []C18_State

\* a checkpointed run that was not a resume finished: its checkpoint is gone
C18_Witness ==
  /\ pc = "done" /\ use_checkpoint /\ ~resume
  /\ total_chunks = 2
  /\ CleanedEmitted /\ StoreEmpty


(***************************************************************************)
(* split_text_to_chunks (chunking.py 24-91).  A Python string is the       *)
(* sequence of its characters; a book is cut into its chapters at the      *)
(* chapter breaks.                                                         *)
(***************************************************************************)
MaxBookLen == 5
MaxChunkChars == 3

\* a letter, a sentence terminator, a blank and a line break
Characters == {"a", ".", " ", "\n"}

ChapterBreak == "|"

\* the characters that \s and str.strip() take for white space
Whitespace == {" ", "\n"}

\* the characters of the look-behind of line 36
SentenceEnd == {".", "!", "?"}

Books ==
  UNION {[1 .. n -> Characters \cup {ChapterBreak}] : n \in 0 .. MaxBookLen}

RECURSIVE ChaptersOf(_, _)
ChaptersOf(book, cur) ==
  IF book = <<>> THEN <<cur>>
  ELSE IF Head(book) = ChapterBreak
    THEN <<cur>> \o ChaptersOf(Tail(book), <<>>)
  ELSE ChaptersOf(Tail(book), Append(cur, Head(book)))

RECURSIVE lstrip(_)
lstrip(s) ==
  IF s # <<>> /\ Head(s) \in Whitespace THEN lstrip(Tail(s)) ELSE s

RECURSIVE rstrip(_)
rstrip(s) ==
  IF s # <<>> /\ s[Len(s)] \in Whitespace
    THEN rstrip(SubSeq(s, 1, Len(s) - 1))
    ELSE s

\* str.strip()
strip(s) == rstrip(lstrip(s))

RECURSIVE DropNewlines(_)
DropNewlines(s) ==
  IF s # <<>> /\ Head(s) = "\n" THEN DropNewlines(Tail(s)) ELSE s

\* line 72: re.split(r"\n+", text)
RECURSIVE re_split_newlines(_, _)
re_split_newlines(rest, cur) ==
  IF rest = <<>> THEN <<cur>>
  ELSE IF Head(rest) = "\n"
    THEN <<cur>> \o re_split_newlines(DropNewlines(rest), <<>>)
  ELSE re_split_newlines(Tail(rest), Append(cur, Head(rest)))

RECURSIVE StrippedNonEmpty(_)
StrippedNonEmpty(parts) ==
  IF parts = <<>> THEN <<>>
  ELSE (IF strip(Head(parts)) # <<>> THEN <<strip(Head(parts))>> ELSE <<>>)
         \o StrippedNonEmpty(Tail(parts))

\* line 72: the stripped, non-empty paragraphs of a chapter text
Paragraphs(text) == StrippedNonEmpty(re_split_newlines(text, <<>>))

\* line 36: re.split(r"(?<=[.!?])\s+", paragraph)
RECURSIVE re_split_sentences(_, _)
re_split_sentences(rest, cur) ==
  IF rest = <<>> THEN <<cur>>
  ELSE IF /\ Head(rest) \in Whitespace
          /\ cur # <<>>
          /\ cur[Len(cur)] \in SentenceEnd
    THEN <<cur>> \o re_split_sentences(lstrip(rest), <<>>)
  ELSE re_split_sentences(Tail(rest), Append(cur, Head(rest)))

\* mutation: a sentence longer than the limit is kept whole
HardSplitWhole(sentence, n) == <<sentence>>

\* lines 48-49: the slices of n characters of a sentence
HardSplit(sentence, n) ==
  [k \in 1 .. ((Len(sentence) + n - 1) \div n) |->
     SubSeq(sentence, (k - 1) * n + 1,
            IF k * n < Len(sentence) THEN k * n ELSE Len(sentence))]

\* mutation: the sentence buffer is forgotten instead of flushed
FlushedDropping(pieces, buffer) == pieces

\* lines 45-46, 56-57, 60-61: the sentence buffer is flushed to the pieces
Flushed(pieces, buffer) ==
  IF buffer # <<>> THEN Append(pieces, buffer) ELSE pieces

\* lines 39-61: the loop over the sentences of a paragraph
RECURSIVE SentenceLoop(_, _, _, _)
SentenceLoop(sentences, pieces, sentence_buffer, n) ==
  IF sentences = <<>> THEN Flushed(pieces, sentence_buffer)
  ELSE LET sentence == strip(Head(sentences))
           rest == Tail(sentences)
           candidate == strip(sentence_buffer \o <<" ">> \o sentence)
       IN IF sentence = <<>>
            THEN SentenceLoop(rest, pieces, sentence_buffer, n)
          ELSE IF Len(sentence) > n
            THEN SentenceLoop(rest,
                              Flushed(pieces, sentence_buffer)
                                \o HardSplit(sentence, n),
                              <<>>, n)
          ELSE IF Len(candidate) <= n
            THEN SentenceLoop(rest, pieces, candidate, n)
          ELSE SentenceLoop(rest, Flushed(pieces, sentence_buffer), sentence, n)

\* lines 31-63
split_oversized_paragraph(paragraph, n) ==
  IF Len(paragraph) <= n THEN <<paragraph>>
  ELSE LET pieces ==
             SentenceLoop(re_split_sentences(paragraph, <<>>), <<>>, <<>>, n)
       IN IF pieces # <<>> THEN pieces ELSE <<paragraph>>

\* lines 79-80: the pieces of all paragraphs of a chapter, in order
RECURSIVE AllPieces(_, _)
AllPieces(paragraphs, n) ==
  IF paragraphs = <<>> THEN <<>>
  ELSE split_oversized_paragraph(Head(paragraphs), n)
         \o AllPieces(Tail(paragraphs), n)

\* mutation: a chunk carries the title of the chapter before its own
TextChunkStaleTitle(title, text) ==
  [chapter_title |-> IF title > 1 THEN title - 1 ELSE title, text |-> text]

\* models.py 6-9
TextChunk(title, text) == [chapter_title |-> title, text |-> text]

\* lines 78-89: the pieces are packed into chunks of the chapter
RECURSIVE PieceLoop(_, _, _, _, _)
PieceLoop(pieces, out, buffer, title, n) ==
  IF pieces = <<>>
    THEN (IF buffer # <<>> THEN Append(out, TextChunk(title, buffer)) ELSE out)
  ELSE IF Len(buffer) + Len(Head(pieces)) + 1 <= n
    THEN PieceLoop(Tail(pieces), out,
                   strip(buffer \o <<" ">> \o Head(pieces)), title, n)
  ELSE PieceLoop(Tail(pieces),
                 IF buffer # <<>> THEN Append(out, TextChunk(title, buffer))
                 ELSE out,
                 Head(pieces), title, n)

\* mutation: the chapter is recorded before its paragraphs are looked at
HasParagraphsAlways(text) == TRUE

\* lines 73-74
HasParagraphs(text) == Paragraphs(text) # <<>>

\* line 48: range() refuses a step of zero; with chunk_chars = 0 every
\* paragraph is oversized and its first sentence is longer than the limit
RangeStepZero(text, n) == n = 0 /\ Paragraphs(text) # <<>>

NextTitle == chapter_pos + 1

NextText == chapters[chapter_pos + 1]

splitRest ==
  <<inputVars, storeVars, mainVars, seqVars, sinkVars, obsVars, ovVars,
    processVars, host, prior_args, args, pipeline_mode, warnings, backend, mp3_export_proc,
    spool_path, cleanup_calls, cleanup_error, propagated, chapters, max_chars>>

\* lines 65-74: a chapter without paragraphs is passed over
SplitSkipChapter ==
  /\ split_pc = "chapters" /\ chapter_pos < Len(chapters)
  /\ ~HasParagraphs(NextText)
  /\ chapter_pos' = chapter_pos + 1
  /\ UNCHANGED <<text_chunks, chapter_start_indices, split_pc, splitRest>>

\* lines 65-89: the chapter's start is recorded and its chunks appended
SplitChapter ==
  /\ split_pc = "chapters" /\ chapter_pos < Len(chapters)
  /\ HasParagraphs(NextText)
  /\ ~RangeStepZero(NextText, max_chars)
  /\ chapter_start_indices' =
       Append(chapter_start_indices, <<Len(text_chunks), NextTitle>>)
  /\ text_chunks' =
       PieceLoop(AllPieces(Paragraphs(NextText), max_chars), text_chunks,
                 <<>>, NextTitle, max_chars)
  /\ chapter_pos' = chapter_pos + 1
  /\ UNCHANGED <<split_pc, splitRest>>

\* lines 76-80 and 48: the hard split raises ValueError
SplitRaise ==
  /\ split_pc = "chapters" /\ chapter_pos < Len(chapters)
  /\ HasParagraphs(NextText)
  /\ RangeStepZero(NextText, max_chars)
  /\ chapter_start_indices' =
       Append(chapter_start_indices, <<Len(text_chunks), NextTitle>>)
  /\ split_pc' = "raised"
  /\ UNCHANGED <<text_chunks, chapter_pos, splitRest>>

\* line 91
SplitReturn ==
  /\ split_pc = "chapters" /\ chapter_pos = Len(chapters)
  /\ split_pc' = "returned"
  /\ UNCHANGED <<text_chunks, chapter_start_indices, chapter_pos, splitRest>>

\* split_text_to_chunks is called on the chapters of a book with a limit
InitSplit ==
  /\ chunks = <<>> /\ deterministic = TRUE
  /\ ckpt = <<>>
  /\ artifacts = [i \in ChunkIdx |-> <<>>]
  /\ runs = 0
  /\ NoRun
  /\ host = <<>> /\ prior_args = <<>> /\ args = <<>>
  /\ pipeline_mode = "unset" /\ warnings = <<>>
  /\ \E book \in Books : chapters = ChaptersOf(book, <<>>)
  /\ max_chars \in 0 .. MaxChunkChars
  /\ text_chunks = <<>> /\ chapter_start_indices = <<>>
  /\ chapter_pos = 0 /\ split_pc = "chapters"
  /\ ProcessUnused

NextSplit ==
  \/ SplitSkipChapter
  \/ SplitChapter
  \/ SplitRaise
  \/ SplitReturn

SpecSplit == InitSplit /\ [][NextSplit]_vars

\* C19: for every sequence of chapters and every max_chars >= 1,
\* split_text_to_chunks does not raise, and every chunk it has built, and so
\* every chunk it returns, has a text of at most max_chars characters.
C19_ChunksWithinLimit ==
  max_chars >= 1 =>
    /\ split_pc # "raised"
    /\ \A i \in 1 .. Len(text_chunks) : Len(text_chunks[i].text) <= max_chars

\* a sentence of five letters was hard-split at a limit of two
C19_Witness ==
  /\ split_pc = "returned" /\ max_chars = 2
  /\ chapters = << <<"a", "a", "a", "a", "a">> >>
  /\ Len(text_chunks) = 3
  /\ text_chunks[3].text = <<"a">>

\* the chapters, among the first n, that have a non-empty paragraph: their
\* text has a character that is not white space
ChaptersWithText(n) ==
  {c \in 1 .. n : \E k \in 1 .. Len(chapters[c]) : chapters[c][k] \notin Whitespace}

\* C20: the chunk indices in chapter_start_indices are strictly increasing
\* and each is the index of a chunk of that chapter; the list has one entry
\* for each chapter with at least one non-empty paragraph, in order; a
\* chapter without one has no chunk and no entry.
C20_ChapterStarts ==
  split_pc \in {"chapters", "returned"} =>
    /\ \A i, j \in 1 .. Len(chapter_start_indices) :
         i < j => chapter_start_indices[i][1] < chapter_start_indices[j][1]
    /\ Len(chapter_start_indices) = Cardinality(ChaptersWithText(chapter_pos))
    /\ {chapter_start_indices[i][2] : i \in 1 .. Len(chapter_start_indices)}
         = ChaptersWithText(chapter_pos)
    /\ \A i \in 1 .. Len(chapter_start_indices) :
         /\ chapter_start_indices[i][1] < Len(text_chunks)
         /\ text_chunks[chapter_start_indices[i][1] + 1].chapter_title
              = chapter_start_indices[i][2]
    /\ \A i \in 1 .. Len(text_chunks) :
         text_chunks[i].chapter_title \in ChaptersWithText(chapter_pos)

\* of three chapters the second is only a blank: two entries, for the
\* chunks 0 and 1
C20_Witness ==
  /\ split_pc = "returned" /\ max_chars >= 1
  /\ chapters = << <<"a">>, <<" ">>, <<"a">> >>
  /\ chapter_start_indices = << <<0, 1>>, <<1, 3>> >>
  /\ Len(text_chunks) = 2

\* the characters of a text that are not white space, in order
RECURSIVE NonBlank(_)
NonBlank(s) ==
  IF s = <<>> THEN <<>>
  ELSE (IF Head(s) \in Whitespace THEN <<>> ELSE <<Head(s)>>)
         \o NonBlank(Tail(s))

\* the texts of the chunks of a chapter, joined in order
RECURSIVE JoinedChunks(_, _)
JoinedChunks(list, title) ==
  IF list = <<>> THEN <<>>
  ELSE (IF Head(list).chapter_title = title THEN Head(list).text ELSE <<>>)
         \o JoinedChunks(Tail(list), title)

\* C21: for every max_chars >= 1 and every chapter the loop is done with,
\* the chunks of the chapter joined in order have exactly the non-blank
\* characters of the chapter's text, in the same order: chunking drops,
\* duplicates and reorders white space only.
C21_RoundTrip ==
  (max_chars >= 1 /\ split_pc \in {"chapters", "returned"}) =>
    \A c \in 1 .. chapter_pos :
      NonBlank(JoinedChunks(text_chunks, c)) = NonBlank(chapters[c])

\* a paragraph of three sentences went through the sentence buffer: two of
\* them share a chunk, the third has its own
C21_Witness ==
  /\ split_pc = "returned" /\ max_chars = 3
  /\ chapters = << <<".", " ", ".", " ", "a">> >>
  /\ Len(text_chunks) = 2
  /\ text_chunks[1].text = <<".", " ", ".">>
  /\ text_chunks[2].text = <<"a">>


(***************************************************************************)
(* The chapter ranges main() derives for an m4b export (cli.py 569-595)    *)
(* from the runner's chunk_sample_offsets and total_samples and from the   *)
(* chapter_start_indices of split_text_to_chunks.                          *)
(***************************************************************************)
MaxChapterChunks == 3

\* the numbers of samples a chunk may have come out with
ChunkSampleCounts == {0, 100, 150}

ChapterTitles == <<"A", "B", "C", "D", "E", "F">>

\* the chapter starts over the chunks whose indices are in S
StartsAt(S) ==
  [i \in 1 .. Cardinality(S) |-> <<SortedSeq(S)[i], ChapterTitles[i]>>]

\* the offsets the runner recorded for chunks of these sample counts
RECURSIVE SumTo(_, _)
SumTo(counts, i) == IF i = 0 THEN 0 ELSE counts[i] + SumTo(counts, i - 1)

OffsetsOfCounts(counts) ==
  [i \in 0 .. (Len(counts) - 1) |-> SumTo(counts, i)]

ChapterInfo(title, start_sample, end_sample) ==
  [title |-> title, start_sample |-> start_sample, end_sample |-> end_sample]

\* lines 572-576 and 580-584: the offset of a chunk, or the default for an
\* index beyond the list
OffsetAt(chunk_idx, default) ==
  IF chunk_idx < total_chunks THEN chunk_sample_offsets[chunk_idx] ELSE default

\* mutation: every chapter ends at the end of the audio
EndSampleTotal(index) == cumulative_samples

\* lines 578-586
EndSample(index) ==
  IF index + 1 < Len(chapter_start_indices)
    THEN OffsetAt(chapter_start_indices[index + 2][1], cumulative_samples)
    ELSE cumulative_samples

\* line 588
ChapterTitle(title, index) ==
  IF title # "" THEN title ELSE <<"Chapter", index + 1>>

\* lines 569-595; index counts from 0 as enumerate does
DerivedChapterInfos ==
  IF args.format = "m4b" /\ chapter_start_indices # <<>>
    THEN [k \in 1 .. Len(chapter_start_indices) |->
            ChapterInfo(ChapterTitle(chapter_start_indices[k][2], k - 1),
                        OffsetAt(chapter_start_indices[k][1], 0),
                        EndSample(k - 1))]
    ELSE <<>>

\* lines 569-595
MainDeriveChapters ==
  /\ chapter_infos = <<>>
  /\ chapter_infos' = <<DerivedChapterInfos>>
  /\ UNCHANGED <<inputVars, storeVars, mainVars, seqVars, sinkVars, obsVars,
                 ovVars, splitVars, beatVars, joinVars, closes, resolveVars,
                 host, prior_args, args,
                 pipeline_mode, warnings, backend, mp3_export_proc, spool_path,
                 cleanup_calls, cleanup_error, propagated>>

\* a runner has returned offsets and a total for the chunks of a document
\* whose first chapter starts at chunk 0
InitChapters ==
  /\ \E n \in 1 .. MaxChapterChunks :
       /\ chunks = Document(n, 0)
       /\ \E counts \in [1 .. n -> ChunkSampleCounts] :
            /\ chunk_sample_offsets = OffsetsOfCounts(counts)
            /\ cumulative_samples = SumTo(counts, n)
       /\ \E S \in SUBSET (0 .. (n - 1)) :
            /\ 0 \in S
            /\ chapter_start_indices = StartsAt(S)
  /\ deterministic = TRUE
  /\ ckpt = <<>>
  /\ artifacts = [i \in ChunkIdx |-> <<>>]
  /\ runs = 1
  /\ IdleButSamples
  /\ host = <<>> /\ prior_args = <<>>
  /\ \E fm \in OptionValues.format : args = [DefaultArgs EXCEPT !.format = fm]
  /\ pipeline_mode = "sequential" /\ warnings = <<>>
  /\ chapters = <<>> /\ max_chars = 0 /\ text_chunks = <<>>
  /\ chapter_pos = 0 /\ split_pc = "unused"
  /\ chapter_infos = <<>>
  /\ BeatUnused /\ JoinUnused /\ closes = 0 /\ ResolveUnused

NextChapters == MainDeriveChapters

SpecChapters == InitChapters /\ [][NextChapters]_vars

ChapterCount == Len(chapter_start_indices)

\* C22: for an m4b job the range of chapter j runs from the offset of its
\* start chunk to the offset of the start chunk of chapter j+1, and the last
\* one to total_samples; the first range starts at 0, each range ends where
\* the next begins, no range has its end before its start, so that together
\* they cover [0, total_samples) without overlap.  Offsets [0, 100, 250]
\* with starts [(0, A), (2, B)] give A:[0,250) and B:[250,total).
C22_ChapterRanges ==
  (chapter_infos # <<>> /\ args.format = "m4b") =>
    /\ Len(chapter_infos[1]) = ChapterCount
    /\ \A j \in 1 .. ChapterCount :
         /\ chapter_infos[1][j].title = chapter_start_indices[j][2]
         /\ chapter_infos[1][j].start_sample =
              chunk_sample_offsets[chapter_start_indices[j][1]]
         /\ chapter_infos[1][j].start_sample <= chapter_infos[1][j].end_sample
         /\ j < ChapterCount =>
              /\ chapter_infos[1][j].end_sample =
                   chunk_sample_offsets[chapter_start_indices[j + 1][1]]
              /\ chapter_infos[1][j].end_sample = chapter_infos[1][j + 1].start_sample
    /\ chapter_infos[1][1].start_sample = 0
    /\ chapter_infos[1][ChapterCount].end_sample = cumulative_samples
    /\ (/\ total_chunks = 3
        /\ chunk_sample_offsets = (0 :> 0) @@ (1 :> 100) @@ (2 :> 250)
        /\ chapter_start_indices = << <<0, "A">>, <<2, "B">> >>)
       => chapter_infos[1] = <<ChapterInfo("A", 0, 250),
                               ChapterInfo("B", 250, cumulative_samples)>>

\* the example of the spec, with a last chunk of 100 samples
C22_Witness ==
  /\ args.format = "m4b"
  /\ chunk_sample_offsets = (0 :> 0) @@ (1 :> 100) @@ (2 :> 250)
  /\ cumulative_samples = 350
  /\ chapter_start_indices = << <<0, "A">>, <<2, "B">> >>
  /\ chapter_infos =
       << <<ChapterInfo("A", 0, 250), ChapterInfo("B", 250, 350)>> >>

\* a precondition of the job does not hold: an option below 1 or a document
\* without chunks
PreconditionFailed ==
  args.prefetch_chunks < 1 \/ args.pcm_queue_size < 1 \/ total_chunks = 0

\* the step that rejects a job leaves the checkpoint store alone
C23_RejectLeavesStore == pc' = "rejected" => UNCHANGED storeVars

C23_State ==
  (args # <<>> /\ PreconditionFailed) =>
    /\ pc = "rejected"
    /\ error \in {"prefetch_chunks", "pcm_queue_size", "no_chunks"}
    /\ propagated = error
    /\ backend = "none" /\ mp3_export_proc = "none" /\ spool_path = "none"
    /\ checkpoint_state = <<>>
    /\ EventPositions("checkpoint", "SAVED") = {}
    /\ mp3_stdin = <<>> /\ spool = <<>>

\* C23: when prefetch_chunks < 1, pcm_queue_size < 1 or the document yields
\* no chunk, the job ends with an error and at no time holds a backend, a
\* muxer process or a spool file, nor has it created or written checkpoint
\* state.
C23_PreconditionsBeforeResources ==
  [][C23_RejectLeavesStore]_vars /\ []C23_State

\* a checkpointed job with valid options whose document has no chunks
C23_Witness ==
  /\ pc = "rejected" /\ error = "no_chunks"
  /\ args.prefetch_chunks = 1 /\ args.pcm_queue_size = 1
  /\ args.checkpoint
  /\ backend = "none" /\ spool_path = "none"


(***************************************************************************)
(* Time and heartbeats.  Time is counted in quarters of a second, the      *)
(* timeout of the controller's queue read.  Time passes while main() is    *)
(* blocked: in prepare_job, in backend.generate of the sequential runner,  *)
(* and in pcm_queue.get of the overlapped runner.                          *)
(***************************************************************************)
MaxTime == 41

\* pipeline.py 261: timeout=0.25
QueueTimeout == 1

\* events.py 126 and pipeline.py 57, 207: 5 seconds
HeartbeatInterval == 20

\* mutation: the heartbeat is due only after more than the interval
HeartbeatDueLate(t) == t - last_heartbeat > HeartbeatInterval

\* pipeline.py 57, 207
HeartbeatDue(t) == t - last_heartbeat >= HeartbeatInterval

\* pipeline.py 54-59, 204-209, called at time t
emit_heartbeat_if_needed(t) ==
  /\ beats' = IF HeartbeatDue(t) THEN Append(beats, <<t, "runner">>) ELSE beats
  /\ last_heartbeat' = IF HeartbeatDue(t) THEN t ELSE last_heartbeat

beatRest ==
  <<inputVars, storeVars, mainVars, seqVars, sinkVars, obsVars, ovVars,
    splitVars, chapter_infos, host, prior_args, args, pipeline_mode, warnings,
    backend, mp3_export_proc, spool_path, cleanup_calls, cleanup_error,
    propagated, beat_mode, joinVars, closes, resolveVars>>

\* cli.py 355-360, events.py 124-141: the emitter thread is started
BeatStartParsing ==
  /\ beat_pc = "main"
  /\ hb_thread' = "running"
  /\ hb_deadline' = now + HeartbeatInterval
  /\ beat_pc' = "parsing"
  /\ UNCHANGED <<now, beat_idx, last_heartbeat, beats, beat_step, beatRest>>

\* events.py 131-133: the wait of the emitter thread runs out
heartbeat_worker ==
  /\ hb_thread = "running" /\ now = hb_deadline
  /\ beats' = Append(beats, <<now, "thread">>)
  /\ hb_deadline' = now + HeartbeatInterval
  /\ UNCHANGED <<now, beat_pc, beat_idx, hb_thread, last_heartbeat, beat_step,
                 beatRest>>

\* a quarter of a second passes while main() is blocked in prepare_job or
\* in backend.generate; a running emitter thread is never late
BeatTick ==
  /\ beat_pc \in {"parsing", "infer"}
  /\ now < MaxTime
  /\ hb_thread = "running" => now < hb_deadline
  /\ now' = now + 1
  /\ UNCHANGED <<beat_pc, beat_idx, hb_thread, hb_deadline, last_heartbeat,
                 beats, beat_step, beatRest>>

\* cli.py 361-377: prepare_job returns or raises; the emitter is stopped and
\* joined
BeatEndParsing(raised) ==
  /\ beat_pc = "parsing"
  /\ hb_thread' = "stopped"
  /\ beat_pc' = IF raised THEN "failed" ELSE "prepared"
  /\ UNCHANGED <<now, beat_idx, hb_deadline, last_heartbeat, beats, beat_step,
                 beatRest>>

\* cli.py 497-561, pipeline.py 51, 192: the runner of the mode is entered
BeatRunnerStart ==
  /\ beat_pc = "prepared"
  /\ last_heartbeat' = now
  /\ beat_pc' = IF beat_mode = "overlap3" THEN "drain" ELSE "infer"
  /\ UNCHANGED <<now, beat_idx, hb_thread, hb_deadline, beats, beat_step,
                 beatRest>>

\* pipeline.py 112-163: the generate call of a chunk is over; the heartbeat
\* check of the chunk boundary
BeatChunkDone ==
  /\ beat_pc = "infer"
  /\ emit_heartbeat_if_needed(now)
  /\ beat_idx' = beat_idx + 1
  /\ beat_pc' = IF beat_idx + 1 = total_chunks THEN "returned" ELSE "infer"
  /\ UNCHANGED <<now, hb_thread, hb_deadline, beat_step, beatRest>>

\* pipeline.py 260-264: the queue read times out; the heartbeat check
BeatQueueEmpty ==
  /\ beat_pc = "drain"
  /\ now + QueueTimeout <= MaxTime
  /\ now' = now + QueueTimeout
  /\ emit_heartbeat_if_needed(now + QueueTimeout)
  /\ beat_step' = "timeout"
  /\ UNCHANGED <<beat_pc, beat_idx, hb_thread, hb_deadline, beatRest>>

\* pipeline.py 266-317: a message is taken; only "done" checks the heartbeat
BeatMessage(kind) ==
  /\ beat_pc = "drain"
  /\ kind = "done" => beat_idx < total_chunks
  /\ kind = "end" => beat_idx = total_chunks
  /\ IF kind = "done"
       THEN emit_heartbeat_if_needed(now)
       ELSE UNCHANGED <<beats, last_heartbeat>>
  /\ beat_idx' = IF kind = "done" THEN beat_idx + 1 ELSE beat_idx
  /\ beat_pc' = IF kind = "end" THEN "returned" ELSE "drain"
  /\ beat_step' = kind
  /\ UNCHANGED <<now, hb_thread, hb_deadline, beatRest>>

InitBeat ==
  /\ \E n \in 1 .. MaxChunks : chunks = Document(n, 0)
  /\ deterministic = TRUE
  /\ ckpt = <<>>
  /\ artifacts = [i \in ChunkIdx |-> <<>>]
  /\ runs = 0
  /\ NoRun
  /\ host = <<>> /\ prior_args = <<>> /\ args = <<>>
  /\ pipeline_mode = "unset" /\ warnings = <<>>
  /\ chapters = <<>> /\ max_chars = 0
  /\ text_chunks = <<>> /\ chapter_start_indices = <<>>
  /\ chapter_pos = 0 /\ split_pc = "unused"
  /\ chapter_infos = <<>>
  /\ now = 0 /\ beat_mode \in {"sequential", "overlap3"}
  /\ beat_pc = "main" /\ beat_idx = 0
  /\ hb_thread = "none" /\ hb_deadline = 0 /\ last_heartbeat = 0
  /\ beats = <<>> /\ beat_step = "none"
  /\ JoinUnused /\ closes = 0 /\ ResolveUnused

NextBeat ==
  \/ BeatStartParsing
  \/ heartbeat_worker
  \/ BeatTick
  \/ \E raised \in BOOLEAN : BeatEndParsing(raised)
  \/ BeatRunnerStart
  \/ BeatChunkDone
  \/ BeatQueueEmpty
  \/ \E kind \in {"start", "audio", "done", "end"} : BeatMessage(kind)

SpecBeat == InitBeat /\ [][NextBeat]_vars

\* the time of the last heartbeat event, 0 if there is none yet
LastBeat == IF beats = <<>> THEN 0 ELSE beats[Len(beats)][1]

\* C24: the heartbeat emitter thread runs during every blocking phase,
\* parsing and inference alike, so that while main() is blocked in either
\* no more than the interval passes without a heartbeat event.
C24_EmitterDuringBlockingPhases ==
  beat_pc \in {"parsing", "infer"} =>
    /\ hb_thread = "running"
    /\ now - LastBeat <= HeartbeatInterval

\* the heartbeat events of the runner, in the order of their emission
RunnerBeats == SelectSeq(beats, LAMBDA b : b[2] = "runner")

\* a step of the overlapped controller whose queue read timed out
C25_TimeoutStep ==
  (beat_pc = "drain" /\ now' # now) =>
    /\ beat_mode = "overlap3" /\ beat_pc' = "drain" /\ beat_step' = "timeout"
    /\ now' = now + QueueTimeout
    /\ (now' - last_heartbeat >= HeartbeatInterval) =>
         /\ Len(beats') = Len(beats) + 1
         /\ beats'[Len(beats')] = <<now', "runner">>
    /\ now' - last_heartbeat' < HeartbeatInterval

C25_NeverSooner ==
  beat_mode = "overlap3" =>
    /\ \A i \in 1 .. Len(RunnerBeats) - 1 :
         RunnerBeats[i + 1][1] - RunnerBeats[i][1] >= HeartbeatInterval
    /\ beat_pc \in {"drain", "returned"} =>
         /\ last_heartbeat <= now
         /\ RunnerBeats # <<>> =>
              last_heartbeat = RunnerBeats[Len(RunnerBeats)][1]

\* C25: the overlapped controller waits for a message no longer than the
\* queue timeout; every time the read times out it checks the heartbeat, so
\* that a heartbeat is emitted as soon as the interval has passed since the
\* previous one, and two heartbeats of the runner are never closer than the
\* interval.
C25_ControllerHeartbeat == [][C25_TimeoutStep]_vars /\ []C25_NeverSooner

\* C25 witness: the controller has timed out through two intervals and has
\* emitted its second heartbeat
C25_Witness ==
  /\ beat_mode = "overlap3" /\ beat_pc = "drain" /\ beat_step = "timeout"
  /\ Len(RunnerBeats) = 2
  /\ now = last_heartbeat


(***************************************************************************)
(* The finally of the overlapped runner: both stage threads are joined,    *)
(* each with a timeout.  A stage thread that is alive may end at any time  *)
(* or never: nothing makes it end.                                         *)
(***************************************************************************)

\* pipeline.py 324-325: timeout=2, in quarters of a second
JoinTimeout == 8

\* the ways the body of the try leaves (pipeline.py 257-258, 266-322)
RunnerExits == {"none", "infer_failed", "convert_failed", "invalid_index",
                "unknown_kind", "write_failed"}

ThreadStates == {"gen", "put", "exited"}

\* mutation: a join without timeout
JoinNeverTimesOut == FALSE

\* Thread.join(timeout=2): the wait is over when the timeout has passed
JoinTimedOut == now >= join_deadline

joinRest ==
  <<inputVars, storeVars, ovMainRest, seqVars, sinkVars, obsVars, splitVars,
    chapter_infos, host, prior_args, args, pipeline_mode, warnings, backend,
    mp3_export_proc, spool_path, cleanup_calls, cleanup_error, propagated,
    prefetch_chunks, pcm_queue_size, inference_queue, pcm_queue, worker_errors,
    inf_idx, inf_pos, cv_msg, chunk_started, timeouts, inf_sent, cv_sent,
    captured, observed, muxed, beat_mode, beat_pc, beat_idx, hb_thread,
    hb_deadline, last_heartbeat, beats, beat_step, closes, resolveVars>>

\* pipeline.py 323-324: the body of the try is left; infer_thread.join
JoinInferStart ==
  /\ pc = "finally"
  /\ pc' = "join_infer"
  /\ join_deadline' = now + JoinTimeout
  /\ UNCHANGED <<now, inf_pc, cv_pc, joined, error, joinRest>>

\* a quarter of a second passes while the runner waits in a join
JoinTick ==
  /\ \/ pc = "join_infer" /\ inf_pc # "exited"
     \/ pc = "join_convert" /\ cv_pc # "exited"
  /\ ~JoinTimedOut
  /\ now < MaxTime
  /\ now' = now + 1
  /\ UNCHANGED <<pc, inf_pc, cv_pc, join_deadline, joined, error, joinRest>>

\* pipeline.py 324-325: infer_thread.join returns; convert_thread.join
JoinInferReturn ==
  /\ pc = "join_infer"
  /\ inf_pc = "exited" \/ JoinTimedOut
  /\ joined' = Append(joined, "tts-infer")
  /\ pc' = "join_convert"
  /\ join_deadline' = now + JoinTimeout
  /\ UNCHANGED <<now, inf_pc, cv_pc, error, joinRest>>

\* pipeline.py 325-332: convert_thread.join returns; the runner returns its
\* result or the error of the body propagates
JoinConvertReturn ==
  /\ pc = "join_convert"
  /\ cv_pc = "exited" \/ JoinTimedOut
  /\ joined' = Append(joined, "tts-convert")
  /\ pc' = IF error = "none" THEN "returned" ELSE "raised"
  /\ UNCHANGED <<now, inf_pc, cv_pc, join_deadline, error, joinRest>>

\* pipeline.py 211-242: a stage thread that is not blocked for good ends
StageThreadEnds(thread) ==
  /\ pc \in {"finally", "join_infer", "join_convert"}
  /\ IF thread = "tts-infer"
       THEN inf_pc # "exited" /\ inf_pc' = "exited" /\ UNCHANGED cv_pc
       ELSE cv_pc # "exited" /\ cv_pc' = "exited" /\ UNCHANGED inf_pc
  /\ UNCHANGED <<now, pc, join_deadline, joined, error, joinRest>>

InitJoin ==
  /\ \E n \in 1 .. MaxChunks : chunks = Document(n, 0)
  /\ deterministic = TRUE
  /\ ckpt = <<>>
  /\ artifacts = [i \in ChunkIdx |-> <<>>]
  /\ runs = 1
  /\ NoResources
  /\ deletes = 0 /\ chain = 0
  /\ pc = "finally"
  /\ error \in RunnerExits
  /\ fp = 1
  /\ use_checkpoint = FALSE /\ resume = FALSE /\ use_mp3_stream = TRUE
  /\ loaded_completed = {} /\ present_at_start = {}
  /\ idx = 0 /\ completed_chunks = {} /\ checkpoint_state = <<>>
  /\ cumulative_samples = 0
  /\ chunk_sample_offsets = [i \in ChunkIdx |-> 0]
  /\ times = <<>> /\ processed_count = 0
  /\ checkpoint_parts = [active |-> FALSE, parts |-> <<>>]
  /\ gen_pos = 0 /\ rendition = 0
  /\ mp3_stdin = <<>> /\ spool = <<>>
  /\ events = <<>>
  /\ infer_calls = [i \in ChunkIdx |-> 0]
  /\ yielded = [i \in ChunkIdx |-> <<>>]
  /\ prefetch_chunks = 1 /\ pcm_queue_size = 1
  /\ inference_queue = <<>> /\ pcm_queue = <<>> /\ worker_errors = <<>>
  /\ inf_pc \in ThreadStates /\ inf_idx = 0 /\ inf_pos = 0
  /\ cv_pc \in ThreadStates /\ cv_msg = <<>>
  /\ chunk_started = [i \in ChunkIdx |-> FALSE]
  /\ timeouts = 0
  /\ inf_sent = <<>> /\ cv_sent = <<>> /\ captured = <<>>
  /\ observed = <<>> /\ muxed = <<>>
  /\ host = <<>> /\ prior_args = <<>> /\ args = <<>>
  /\ pipeline_mode = "overlap3" /\ warnings = <<>>
  /\ chapters = <<>> /\ max_chars = 0
  /\ text_chunks = <<>> /\ chapter_start_indices = <<>>
  /\ chapter_pos = 0 /\ split_pc = "unused"
  /\ chapter_infos = <<>>
  /\ BeatUnused /\ JoinUnused /\ closes = 0 /\ ResolveUnused

NextJoin ==
  \/ JoinInferStart
  \/ JoinTick
  \/ JoinInferReturn
  \/ JoinConvertReturn
  \/ \E thread \in {"tts-infer", "tts-convert"} : StageThreadEnds(thread)

SpecJoin == InitJoin /\ [][NextJoin]_vars

\* the runner's own thread keeps running; a stage thread need not ever end
FairJoin == SpecJoin /\ WF_vars(JoinInferStart \/ JoinTick \/ JoinInferReturn \/ JoinConvertReturn)

C26_BoundedJoins ==
  /\ pc \in {"finally", "join_infer", "join_convert"} =>
       now <= Len(joined) * JoinTimeout + JoinTimeout
  /\ pc \in {"returned", "raised"} =>
       /\ joined = <<"tts-infer", "tts-convert">>
       /\ now <= 2 * JoinTimeout
       /\ (pc = "raised") = (error # "none")

\* C26: however the body of the overlapped runner is left, the runner joins
\* the inference thread and then the conversion thread, each for at most the
\* join timeout, and then returns or raises the error of the body, whether
\* or not the stage threads ever end.
C26_RunnerLeaves == []C26_BoundedJoins /\ <>(pc \in {"returned", "raised"})

\* C26 witness: the runner has raised the error of its body after both joins
\* timed out on stage threads that are still alive
C26_Witness ==
  /\ pc = "raised"
  /\ inf_pc # "exited" /\ cv_pc # "exited"
  /\ now = 2 * JoinTimeout


(***************************************************************************)
(* The error event and the close of the emitter (cli.py 659-667).          *)
(***************************************************************************)
MainLeft == pc \in {"exited", "rejected"}

ErrorEventPositions == {i \in 1 .. Len(events) : events[i][1] = "error"}

C27_Closed ==
  closes > 0 => (events' = events /\ closes' = closes)

C27_State ==
  /\ ~MainLeft => (closes = 0 /\ ErrorEventPositions = {})
  /\ MainLeft =>
       /\ closes = 1
       /\ (propagated # "none" /\ propagated \notin Interrupts) =>
            /\ ErrorEventPositions = {Len(events)}
            /\ events[Len(events)] = Event("error", "", 0, propagated)
       /\ (propagated = "none" \/ propagated \in Interrupts) =>
            ErrorEventPositions = {}

\* C27: when main() is left with an error (an Exception), exactly one error
\* event has been emitted, it carries the message of the error that
\* propagates and it is the last event; an exit without error, or on the
\* user's interrupt, emits no error event; on every exit the emitter is
\* closed exactly once, and nothing is emitted after the close.
C27_ErrorReportedOnce == [][C27_Closed]_vars /\ []C27_State

\* C27 witness: the job failed during inference, a cleanup failed as well,
\* and main() was left with the error of the job reported once
C27_Witness ==
  /\ pc = "exited" /\ closes = 1
  /\ error = "generate" /\ cleanup_error # <<>>
  /\ events[Len(events)] = Event("error", "", 0, "generate")


(***************************************************************************)
(* The resolutions of one process: every prepare_job resolves the backend, *)
(* the device and the chunk size (job.py 93-100) from what the host        *)
(* reports at that time; the host's reports may change in between (the     *)
(* low-memory flag is read from the environment and from sysctl on every   *)
(* call, runtime.py 62-74).                                                *)
(***************************************************************************)
MaxCalls == 3

\* the options the resolutions depend on
ResolveArgs ==
  {[DefaultArgs EXCEPT !.backend = b, !.device = dv] :
     b \in {"auto", "pytorch", "mlx"}, dv \in {"auto", "cpu"}}

\* mutation: the cache is never hit
CacheHitNever == FALSE

\* runtime.py 126: if _AUTO_BACKEND_CACHE is not None
CacheHit == AUTO_BACKEND_CACHE # <<>>

\* runtime.py 119-156 with the cache: the value returned for the request
CachedResolveBackend(requested) ==
  IF requested # "auto" THEN requested
  ELSE IF CacheHit THEN AUTO_BACKEND_CACHE[1]
  ELSE resolve_backend("auto", host)

\* runtime.py 129-156: the request makes the host probe run
ProbeRuns(requested) == requested = "auto" /\ ~CacheHit

resolveRest ==
  <<inputVars, storeVars, mainVars, seqVars, sinkVars, obsVars, ovVars,
    splitVars, chapter_infos, beatVars, joinVars, closes, prior_args, args,
    pipeline_mode, warnings, backend, mp3_export_proc, spool_path,
    cleanup_calls, cleanup_error, propagated>>

\* job.py 93-100: the resolutions of one prepare_job
PrepareResolve(a) ==
  LET resolved_backend == CachedResolveBackend(a.backend)
  IN
  /\ Len(resolved) < MaxCalls
  /\ AUTO_BACKEND_CACHE' =
       IF ProbeRuns(a.backend) THEN <<resolved_backend>> ELSE AUTO_BACKEND_CACHE
  /\ probes' = IF ProbeRuns(a.backend) THEN probes + 1 ELSE probes
  /\ resolved' = Append(resolved,
       [args |-> a,
        backend |-> resolved_backend,
        device |-> resolve_device_for_args(a, resolved_backend, host),
        chunk_chars |-> ResolvedChunkChars(a, resolved_backend, host)])
  /\ UNCHANGED <<host, resolveRest>>

\* the host reports something else from now on
HostChanges(h) ==
  /\ h # host
  /\ host' = h
  /\ UNCHANGED <<resolveVars, resolveRest>>

InitResolve ==
  /\ \E n \in 1 .. MaxChunks : chunks = Document(n, 0)
  /\ deterministic = TRUE
  /\ ckpt = <<>>
  /\ artifacts = [i \in ChunkIdx |-> <<>>]
  /\ runs = 0
  /\ NoRun
  /\ host \in Hosts
  /\ prior_args = <<>> /\ args = <<>>
  /\ pipeline_mode = "unset" /\ warnings = <<>>
  /\ SplitUnused

NextResolve ==
  \/ \E a \in ResolveArgs : PrepareResolve(a)
  \/ \E h \in Hosts : HostChanges(h)

SpecResolve == InitResolve /\ [][NextResolve]_vars

\* the resolutions in which the backend was requested as "auto"
AutoResolutions == {i \in 1 .. Len(resolved) : resolved[i].args.backend = "auto"}

C28_Call ==
  (Len(resolved') = Len(resolved) + 1) =>
    LET r == resolved'[Len(resolved')]
    IN /\ r.args.backend # "auto" =>
            /\ r.backend = r.args.backend
            /\ AUTO_BACKEND_CACHE' = AUTO_BACKEND_CACHE
            /\ probes' = probes
       /\ (r.args.backend = "auto" /\ AutoResolutions # {}) =>
            /\ r.backend = resolved[CHOOSE i \in AutoResolutions : TRUE].backend
            /\ probes' = probes

C28_State ==
  /\ \A i, j \in AutoResolutions : resolved[i].backend = resolved[j].backend
  /\ probes = IF AutoResolutions = {} THEN 0 ELSE 1
  /\ AUTO_BACKEND_CACHE =
       IF AutoResolutions = {} THEN <<>>
       ELSE <<resolved[CHOOSE i \in AutoResolutions : TRUE].backend>>

\* C28: once a request for the "auto" backend has been resolved, every later
\* request for "auto" gets the same backend and the host probe does not run
\* again, whatever the host reports by then; an explicit backend name is
\* returned as it is, and resolving it leaves the cache and the probe alone
\* and gives the name whatever the cache holds.
C28_AutoBackendCached == [][C28_Call]_vars /\ []C28_State

\* C28 witness: "auto" was resolved to mlx, the host then turned low on
\* memory, and a later "auto" still got mlx while an explicit pytorch in
\* between was returned as named
C28_Witness ==
  /\ Len(resolved) = 3
  /\ resolved[1].args.backend = "auto" /\ resolved[1].backend = "mlx"
  /\ resolved[2].args.backend = "pytorch" /\ resolved[2].backend = "pytorch"
  /\ resolved[3].args.backend = "auto" /\ resolved[3].backend = "mlx"
  /\ host.low_memory
  /\ probes = 1

\* C29: two resolutions of one process with the same options give the same
\* device and the same chunk size, whatever the host reports at the time of
\* each.
C29_DeviceAndChunkCharsCached ==
  \A i, j \in 1 .. Len(resolved) :
    resolved[i].args = resolved[j].args =>
      /\ resolved[i].device = resolved[j].device
      /\ resolved[i].chunk_chars = resolved[j].chunk_chars


(***************************************************************************)
(* The order of the checkpoint writes of the sequential runner             *)
(* (pipeline.py 95-100, 135-145).                                          *)
(***************************************************************************)
\* the indices the checkpoint on disk lists as completed
ListedInCheckpoint ==
  IF ckpt = <<>> THEN {} ELSE SeqToSet(ckpt[1].completed_chunks)

\* the indices this run has reported as MISSING_AUDIO
FoundMissing ==
  {events[k][3] : k \in EventPositions("checkpoint", "MISSING_AUDIO")}

\* the chunk was generated in this run and its artifact is in the store
SavedInRun(i) == i \in SeqToSet(times) /\ artifacts[i] # <<>>

\* what a checkpoint persisted by this run may list
Accounted(i) ==
  \/ SavedInRun(i)
  \/ i \in loaded_completed /\ i \notin FoundMissing

\* a step of the runner: an index enters the completed set only with its
\* artifact saved, and a checkpoint is persisted only with accounted indices
\* and never with an index the runner has not marked
C30_Step ==
  (use_checkpoint /\ InSequentialRunner) =>
    /\ \A i \in completed_chunks' \ completed_chunks :
         /\ i = idx
         /\ artifacts'[i] = <<ChunkAudio>>
    /\ ckpt' # ckpt =>
         /\ ckpt' = checkpoint_state'
         /\ SeqToSet(ckpt'[1].completed_chunks) = completed_chunks'
         /\ \A i \in SeqToSet(ckpt'[1].completed_chunks) :
              \/ i \in SeqToSet(times') /\ artifacts'[i] # <<>>
              \/ i \in loaded_completed /\ i \notin FoundMissing'

C30_State ==
  (use_checkpoint /\ InSequentialRunner) =>
    \A i \in ListedInCheckpoint : Accounted(i)

\* C30: in a checkpointed sequential run the artifact of a chunk is saved
\* before its index enters the completed set and before the checkpoint is
\* persisted, so that every checkpoint the run persists lists only indices
\* whose artifact was saved earlier in this run, or which the loaded
\* checkpoint listed and which have not been found missing.
C30_ArtifactBeforeCheckpoint == [][C30_Step]_vars /\ []C30_State

\* C30 witness: a resumed run found the artifact of chunk 0 missing,
\* generated the chunk again and persisted it, with chunk 1 still listed
\* from the loaded checkpoint
C30_Witness ==
  /\ use_checkpoint /\ resume /\ pc = "loop"
  /\ 0 \in FoundMissing
  /\ ListedInCheckpoint = {0, 1}
  /\ SavedInRun(0) /\ ~SavedInRun(1)


(***************************************************************************)
(* The message stream of the overlapped runner (pipeline.py 211-242,       *)
(* 256-319).                                                               *)
(***************************************************************************)
\* what the controller is to observe for chunk i: the start marker, the
\* converted buffers in yield order, the done marker
ChunkStream(i) ==
  <<Msg("start", i, NoPayload)>>
    \o [j \in 1 .. Len(OvBuffers(i)) |->
          Msg("audio", i, audio_to_int16(OvBuffers(i)[j]))]
    \o <<Msg("done", i, InferMs)>>

\* the stream of a whole run
ExpectedStream ==
  Flatten([k \in 1 .. total_chunks |-> ChunkStream(k - 1)]) \o <<EndMsg>>

IsPrefix(s, t) == Len(s) <= Len(t) /\ s = SubSeq(t, 1, Len(s))

\* what the conversion stage has forwarded, its own sentinel aside
ForwardedSoFar == SelectSeq(cv_sent, NotEnd)

\* what the inference stage has put, its sentinel aside
PutSoFar == SelectSeq(inf_sent, NotEnd)

\* C31: as long as no stage has raised, the controller has observed a prefix
\* of start(0), audio(0)*, done(0), start(1), ..., done(N-1), end, and the
\* whole stream once the run has returned; the conversion stage has
\* forwarded, once each and in order, the messages the inference stage put
\* (audio converted), and the controller observes what was forwarded.
C31_MessageStream ==
  captured = <<>> =>
    /\ IsPrefix(observed, ExpectedStream)
    /\ pc = "returned" => observed = ExpectedStream
    /\ Len(ForwardedSoFar) <= Len(PutSoFar)
    /\ ForwardedSoFar =
         [k \in 1 .. Len(ForwardedSoFar) |->
            IF PutSoFar[k][1] = "audio"
              THEN Msg("audio", PutSoFar[k][2], audio_to_int16(PutSoFar[k][3]))
              ELSE PutSoFar[k]]
    /\ IsPrefix(observed, cv_sent)

\* C31 witness: a returned run of two chunks in which the controller
\* observed more than one audio message of the first chunk before its done
C31_Witness ==
  /\ pc = "returned" /\ captured = <<>>
  /\ total_chunks = 2
  /\ Len(OvBuffers(0)) >= 2
  /\ observed[2][1] = "audio" /\ observed[3][1] = "audio"
  /\ observed[Len(observed)] = EndMsg


(***************************************************************************)
(* Sample offsets and the sample total of a run (pipeline.py 67-127,       *)
(* 272-290), for both runners.                                             *)
(***************************************************************************)
\* the samples the overlapped controller wrote to the muxer for chunk i
MuxedFor(i) ==
  LET own == SelectSeq(muxed, LAMBDA w : w[1] = i)
  IN Flatten([k \in 1 .. Len(own) |-> own[k][2].data])

\* the samples the run wrote to its sink for chunk i
WrittenFor(i) ==
  IF pipeline_mode = "overlap3" THEN MuxedFor(i) ELSE RenderingOf(i)

\* the number of samples written for the chunks before chunk i
WrittenBefore(i) == SumLen([k \in 1 .. i |-> WrittenFor(k - 1)])

\* C32: when a run of either runner has completed without error, the sink
\* holds, chunk after chunk, the samples written for chunks 0..N-1;
\* chunk_sample_offsets[i] is the number of samples written for chunks
\* 0..i-1, so that the offsets start at 0, never decrease, and mark where
\* the samples of chunk i begin in the sink; the sample total is the number
\* of samples in the sink.
C32_OffsetsAndTotal ==
  pc = "returned" =>
    /\ \A i \in ChunkIdx :
         /\ chunk_sample_offsets[i] = WrittenBefore(i)
         /\ SubSeq(ActiveSink, 2 * chunk_sample_offsets[i] + 1,
                   2 * (chunk_sample_offsets[i] + Len(WrittenFor(i))))
              = tobytes(WrittenFor(i))
         /\ i > 0 => chunk_sample_offsets[i - 1] <= chunk_sample_offsets[i]
    /\ total_chunks > 0 => chunk_sample_offsets[0] = 0
    /\ cumulative_samples = WrittenBefore(total_chunks)
    /\ Len(ActiveSink) = 2 * cumulative_samples

\* C32 witness: a completed overlapped run of two chunks
C32_Witness ==
  /\ pc = "returned" /\ pipeline_mode = "overlap3"
  /\ total_chunks = 2
  /\ chunk_sample_offsets[1] > 0
  /\ cumulative_samples > chunk_sample_offsets[1]


(***************************************************************************)
(* The writer of the muxer input in overlapped mode (pipeline.py 211-290). *)
(***************************************************************************)
\* the variables of the two stage threads
stageLocals == <<inf_pc, inf_idx, inf_pos, inf_sent, cv_pc, cv_msg, cv_sent,
                 inference_queue, worker_errors, captured>>

\* a step that writes to the muxer input is a step of the controller taking
\* an audio message, and no step writes once the runner is left
C33_Write ==
  (pipeline_mode = "overlap3" /\ mp3_stdin' # mp3_stdin) =>
    /\ pc = "get" /\ pc' = "check"
    /\ pcm_queue # <<>> /\ Head(pcm_queue)[1] = "audio"
    /\ pcm_queue' = Tail(pcm_queue)
    /\ mp3_stdin' = mp3_stdin \o tobytes(Head(pcm_queue)[3].data)
    /\ UNCHANGED stageLocals

\* C33: in an overlapped job every write to the muxer input is made by the
\* controller, in the step in which it takes an audio message from the pcm
\* queue; the inference and conversion threads never write; once the runner
\* has returned or raised nothing more is written to the muxer input,
\* whatever the stage threads still do.
C33_SingleWriter == [][C33_Write]_vars

\* C33 witness: the controller wrote audio and then raised the error of the
\* conversion stage; main() is left while the inference thread is still
\* alive, with messages of its own in the inference queue
C33_Witness ==
  /\ pipeline_mode = "overlap3"
  /\ pc = "exited" /\ error = "convert"
  /\ mp3_stdin # <<>>
  /\ inf_pc # "exited" /\ inference_queue # <<>>


(***************************************************************************)
(* Chunks and chapter boundaries (chunking.py 65-91).                      *)
(***************************************************************************)
\* the index after the last chunk of the k-th entry of chapter_start_indices
RangeEnd(k) ==
  IF k < Len(chapter_start_indices) THEN chapter_start_indices[k + 1][1]
  ELSE Len(text_chunks)

\* the texts of the chunks i..j-1 (indices from 0), joined in order
RECURSIVE JoinedRange(_, _)
JoinedRange(i, j) ==
  IF i >= j THEN <<>> ELSE text_chunks[i + 1].text \o JoinedRange(i + 1, j)

\* C34: for every max_chars >= 1 the entries (i, title) of chapter_starts cut
\* the chunk list into contiguous ranges, from i up to the index of the next
\* entry or the end of the list, that cover it; every chunk of a range
\* carries the title of the entry, chunk i is the first chunk with that
\* title, and the chunks of the range hold the text of that one chapter and
\* nothing else, so that no chunk spans two chapters.
C34_ChunksWithinChapters ==
  (max_chars >= 1 /\ split_pc \in {"chapters", "returned"}) =>
    /\ text_chunks # <<>> =>
         (chapter_start_indices # <<>> /\ chapter_start_indices[1][1] = 0)
    /\ \A k \in 1 .. Len(chapter_start_indices) :
         LET i == chapter_start_indices[k][1]
             title == chapter_start_indices[k][2]
         IN /\ i < RangeEnd(k)
            /\ \A j \in i .. (RangeEnd(k) - 1) :
                 text_chunks[j + 1].chapter_title = title
            /\ \A j \in 0 .. (Len(text_chunks) - 1) :
                 text_chunks[j + 1].chapter_title = title =>
                   (i <= j /\ j < RangeEnd(k))
            /\ NonBlank(JoinedRange(i, RangeEnd(k))) = NonBlank(chapters[title])

\* C34 witness: two chapters that each exceed the limit and are cut in two:
\* chunks 0 and 1 are the first chapter's, chunks 2 and 3 the second's
C34_Witness ==
  /\ split_pc = "returned" /\ max_chars >= 1
  /\ Len(chapters) = 2
  /\ chapter_start_indices = << <<0, 1>>, <<2, 2>> >>
  /\ Len(text_chunks) = 4


(***************************************************************************)
(* The backend at cleanup time (pipeline.py 211-228, 323-325; cli.py       *)
(* 639-658; cleanup.py 8-16).                                              *)
(***************************************************************************)
\* the inference thread is inside backend.generate or about to call it
InferenceUsesBackend ==
  /\ pipeline_mode = "overlap3"
  /\ \/ inf_pc = "gen"
     \/ inf_pc = "start" /\ inf_idx < total_chunks

\* C35: backend.cleanup() is never invoked while the inference thread of the
\* overlapped runner is still executing backend.generate: once the job's
\* cleanup has called cleanup_backend on a backend, the inference stage has
\* stopped using the backend, on every path.
C35_NoCleanupDuringGenerate ==
  (cleanup_calls # <<>> /\ backend # "none") => ~InferenceUsesBackend


(***************************************************************************)
(* The state of the stages when the overlapped runner returns              *)
(* (pipeline.py 211-242, 255-332).                                         *)
(***************************************************************************)
\* C36: whenever the overlapped runner returns a result, both stage threads
\* have put their end sentinel and have nothing left to do, and both queues
\* are empty: every message the inference stage put was forwarded, every
\* forwarded message was taken by the controller, and every converted
\* buffer was written to the muxer.
C36_QuiescentAtReturn ==
  (pipeline_mode \in {"unset", "overlap3"} /\ use_mp3_stream
     /\ pc = "returned" /\ inf_sent # <<>>) =>
    /\ inf_pc = "exited" /\ cv_pc = "exited"
    /\ EndCount(inf_sent) = 1 /\ EndCount(cv_sent) = 1
    /\ inference_queue = <<>> /\ pcm_queue = <<>> /\ cv_msg = <<>>
    /\ Len(cv_sent) = Len(inf_sent)
    /\ observed = cv_sent
    /\ Len(muxed) = Len(SelectSeq(cv_sent, IsAudio))
    /\ worker_errors = <<>> /\ error = "none"

\* C36 witness: a run of two chunks returned after both queues had been
\* full
C36_Witness ==
  /\ pc = "returned" /\ total_chunks = 2
  /\ inf_pc = "exited" /\ cv_pc = "exited"
  /\ Len(observed) >= 7
  /\ prefetch_chunks = 1 /\ pcm_queue_size = 1


(***************************************************************************)
(* The completed set of a finished checkpointed run (pipeline.py 67-170).  *)
(***************************************************************************)
IsSortedList(list) ==
  \A j, k \in 1 .. Len(list) : j < k => list[j] < list[k]

\* C37: when a checkpointed sequential run completes without error, every
\* index 0..N-1 is in the completed set: the reused indices stayed in it,
\* the indices found missing were put back after regeneration, all others
\* were added after inference; the list of completed chunks the run holds
\* is sorted, and the last persisted checkpoint lists the same set.
C37_AllCompletedAtReturn ==
  (pc = "returned" /\ use_checkpoint) =>
    /\ error = "none"
    /\ completed_chunks = 0 .. (total_chunks - 1)
    /\ Reused \subseteq loaded_completed
    /\ MissingAudio \subseteq loaded_completed
    /\ Reused \cap MissingAudio = {}
    /\ CheckpointEvents("SAVED") = (0 .. (total_chunks - 1)) \ Reused
    /\ checkpoint_state # <<>>
    /\ IsSortedList(checkpoint_state[1].completed_chunks)
    /\ SeqToSet(checkpoint_state[1].completed_chunks) = completed_chunks
    /\ ckpt # <<>>
    /\ IsSortedList(ckpt[1].completed_chunks)
    /\ SeqToSet(ckpt[1].completed_chunks) = completed_chunks

\* C37 witness: a resumed run of two chunks reused one chunk, found the
\* audio of the other missing, regenerated it and returned
C37_Witness ==
  /\ pc = "returned" /\ use_checkpoint /\ resume
  /\ total_chunks = 2
  /\ Reused # {} /\ MissingAudio # {}
  /\ completed_chunks = {0, 1}


(***************************************************************************)
(* The done event and the outcome of the run (cli.py 627-667).             *)
(***************************************************************************)
DoneEventPositions == {i \in 1 .. Len(events) : events[i][1] = "done"}

\* C38: a done event is emitted only by a run that exits successfully: no
\* run emits an error event after it has emitted done, and a run that has
\* emitted done and left main() propagated no error.
C38_DoneMeansSuccess ==
  /\ \A i \in DoneEventPositions : \A j \in ErrorEventPositions : j < i
  /\ (MainLeft /\ DoneEventPositions # {}) => propagated = "none"


(***************************************************************************)
(* The order of the events of a conversion run (cli.py 356-381, 494-638;   *)
(* pipeline.py 67-163, 255-319).                                           *)
(***************************************************************************)
PhaseOrder == <<"PARSING", "INFERENCE", "CONCATENATING", "EXPORTING">>

IsPhase(e) == e[1] = "phase"

\* the phases announced so far, in the order of their events
PhasesEmitted ==
  LET phases == SelectSeq(events, IsPhase)
  IN [k \in 1 .. Len(phases) |-> phases[k][2]]

\* the events a runner emits for one chunk
ChunkLevel(e) ==
  \/ e[1] \in {"worker", "timing", "progress"}
  \/ e[1] = "checkpoint" /\ e[2] \in {"REUSED", "MISSING_AUDIO", "SAVED"}

\* C39: in a conversion run the phase events are emitted in the order
\* PARSING, INFERENCE, CONCATENATING, EXPORTING, each at most once, and a
\* failing run emits only a prefix of this sequence; done is emitted at most
\* once, only after EXPORTING and, when checkpointing is on, after the
\* CLEANED checkpoint event; a run that leaves main() without an error has
\* emitted all four phases and done; every worker, timing, progress and
\* per-chunk checkpoint event comes after INFERENCE and before
\* CONCATENATING.
C39_PhaseOrder ==
  /\ IsPrefix(PhasesEmitted, PhaseOrder)
  /\ Cardinality(DoneEventPositions) <= 1
  /\ \A i \in DoneEventPositions :
       /\ \E j \in 1 .. (i - 1) : events[j] = Event("phase", "EXPORTING", -1, "")
       /\ use_checkpoint =>
            \E j \in 1 .. (i - 1) : events[j] = Event("checkpoint", "CLEANED", -1, "")
  /\ (pc = "exited" /\ propagated = "none") =>
       (PhasesEmitted = PhaseOrder /\ DoneEventPositions # {})
  /\ \A i \in 1 .. Len(events) :
       ChunkLevel(events[i]) =>
         /\ \E j \in 1 .. (i - 1) : events[j] = Event("phase", "INFERENCE", -1, "")
         /\ \A j \in 1 .. (i - 1) : ~(IsPhase(events[j]) /\ events[j][2] \in {"CONCATENATING", "EXPORTING"})
         /\ \A j \in 1 .. (i - 1) : events[j][1] # "done"

\* C39 witness: a resumed checkpointed run reused a chunk, regenerated
\* another, went through the four phases, deleted its checkpoint, emitted
\* done and left main() without an error
C39_Witness ==
  /\ pc = "exited" /\ propagated = "none"
  /\ use_checkpoint /\ resume
  /\ Reused # {} /\ CheckpointEvents("SAVED") # {}
  /\ PhasesEmitted = PhaseOrder
  /\ events[Len(events)][1] = "done"

====
